---- MODULE Spec2Model ----
(***************************************************************************)
(* statsfs: the source tree / value aggregation engine of                  *)
(* fs/statsfs/statsfs.c, with the reference counting and the per-source    *)
(* rw_semaphore that protect it.                                           *)
(*                                                                         *)
(* A struct list_head list is modelled as the sequence of its entries in   *)
(* traversal order: list_add prepends, list_del_init removes one entry,    *)
(* list_for_each_entry visits the sequence left to right.                  *)
(* A uint64_t is modelled exactly, as four little-endian 16-bit limbs.     *)
(* Backing memory is modelled byte by byte (x86: little-endian).           *)
(***************************************************************************)
EXTENDS Integers, Sequences, FiniteSets, TLC

(***************************************************************************)
(* include/linux/statsfs.h: enum stat_type, enum stat_aggr                 *)
(***************************************************************************)
STATSFS_SIGN == 32768
STATSFS_U8 == 0
STATSFS_U16 == 1
STATSFS_U32 == 2
STATSFS_U64 == 3
STATSFS_BOOL == 4
STATSFS_S8 == STATSFS_U8 + STATSFS_SIGN
STATSFS_S16 == STATSFS_U16 + STATSFS_SIGN
STATSFS_S32 == STATSFS_U32 + STATSFS_SIGN
STATSFS_S64 == STATSFS_U64 + STATSFS_SIGN

STATSFS_NONE == 0
STATSFS_SUM == 1
STATSFS_MIN == 2
STATSFS_MAX == 3
STATSFS_COUNT_ZERO == 4
STATSFS_AVG == 5

ENOENT == 2
ENOMEM == 12
EEXIST == 17

\* the null pointer: of a base address, of a struct statsfs_value *, of a name
NULL == 0
NULL_VALUE == <<"", 0>>
NULL_NAME == ""

(***************************************************************************)
(* uint64_t / int64_t arithmetic on four 16-bit limbs, least significant   *)
(* first.  Every operation is modulo 2^64, as in C.                        *)
(***************************************************************************)
LimbBase == 2^16
LimbMax == LimbBase - 1
SignLimb == 2^15

U64Zero == <<0, 0, 0, 0>>
U64_MAX == <<LimbMax, LimbMax, LimbMax, LimbMax>>
S64_MAX == <<LimbMax, LimbMax, LimbMax, SignLimb - 1>>
S64_MIN == <<0, 0, 0, SignLimb>>

\* a small natural number as a uint64_t
U64Of(n) == <<n % LimbBase, (n \div LimbBase) % LimbBase, 0, 0>>

\* a + b (uint64_t, wraps)
U64Add(a, b) ==
    LET s1 == a[1] + b[1]
        s2 == a[2] + b[2] + (s1 \div LimbBase)
        s3 == a[3] + b[3] + (s2 \div LimbBase)
        s4 == a[4] + b[4] + (s3 \div LimbBase)
    IN  <<s1 % LimbBase, s2 % LimbBase, s3 % LimbBase, s4 % LimbBase>>

\* -a (two's complement)
U64Neg(a) ==
    U64Add(<<LimbMax - a[1], LimbMax - a[2], LimbMax - a[3], LimbMax - a[4]>>,
           <<1, 0, 0, 0>>)

\* a < b as uint64_t
U64Less(a, b) ==
    \/ a[4] < b[4]
    \/ a[4] = b[4] /\ a[3] < b[3]
    \/ a[4] = b[4] /\ a[3] = b[3] /\ a[2] < b[2]
    \/ a[4] = b[4] /\ a[3] = b[3] /\ a[2] = b[2] /\ a[1] < b[1]

IsNegative(a) == a[4] >= SignLimb

\* (int64_t)a < (int64_t)b
S64Less(a, b) ==
    IF IsNegative(a) # IsNegative(b) THEN IsNegative(a) ELSE U64Less(a, b)

\* a / n as uint64_t, n a uint32_t count, 0 < n < 2^15 (schoolbook division)
U64DivSmall(a, n) ==
    LET q4 == a[4] \div n
        r4 == a[4] % n
        q3 == (r4 * LimbBase + a[3]) \div n
        r3 == (r4 * LimbBase + a[3]) % n
        q2 == (r3 * LimbBase + a[2]) \div n
        r2 == (r3 * LimbBase + a[2]) % n
        q1 == (r2 * LimbBase + a[1]) \div n
    IN  <<q1, q2, q3, q4>>

\* ((int64_t)a) / n, C division: truncates toward zero
S64DivSmall(a, n) ==
    IF IsNegative(a) THEN U64Neg(U64DivSmall(U64Neg(a), n))
    ELSE U64DivSmall(a, n)

(***************************************************************************)
(* struct statsfs_value: the descriptor tables of the model.  A descriptor *)
(* pointer is the pair <<array, index>>; an array ends at its first entry  *)
(* with a NULL name.                                                       *)
(***************************************************************************)
Val(n, o, t, a) == [name |-> n, offset |-> o, type |-> t, aggr_kind |-> a]

Terminator == Val(NULL_NAME, 0, 0, 0)

\* one aggregate of each kind over an unsigned and over a signed field
TableD ==
    << Val("n",    0, STATSFS_U64,  STATSFS_SUM),
       Val("min",  0, STATSFS_U64,  STATSFS_MIN),
       Val("max",  0, STATSFS_U64,  STATSFS_MAX),
       Val("cz",   0, STATSFS_U64,  STATSFS_COUNT_ZERO),
       Val("avg",  0, STATSFS_U64,  STATSFS_AVG),
       Val("raw",  0, STATSFS_U64,  STATSFS_NONE),
       Val("sn",   8, STATSFS_S32,  STATSFS_SUM),
       Val("smin", 8, STATSFS_S32,  STATSFS_MIN),
       Val("smax", 8, STATSFS_S32,  STATSFS_MAX),
       Val("scz",  8, STATSFS_S32,  STATSFS_COUNT_ZERO),
       Val("savg", 8, STATSFS_S32,  STATSFS_AVG),
       Val("sraw", 8, STATSFS_S32,  STATSFS_NONE),
       Terminator >>

\* another array: its first entry has the name, offset and kind of TableD[1]
TableE ==
    << Val("n",    0, STATSFS_U64,  STATSFS_SUM),
       Val("e",    8, STATSFS_S32,  STATSFS_MAX),
       Terminator >>

\* an array with one entry for every enum stat_type: the u64 of the struct
\* and the bytes of its s32 read at every width, signed and unsigned
TableK ==
    << Val("u8",   8, STATSFS_U8,   STATSFS_SUM),
       Val("s8",   8, STATSFS_S8,   STATSFS_SUM),
       Val("u16",  8, STATSFS_U16,  STATSFS_SUM),
       Val("s16",  8, STATSFS_S16,  STATSFS_SUM),
       Val("u32",  8, STATSFS_U32,  STATSFS_SUM),
       Val("s32",  8, STATSFS_S32,  STATSFS_SUM),
       Val("u64",  0, STATSFS_U64,  STATSFS_SUM),
       Val("s64",  0, STATSFS_S64,  STATSFS_SUM),
       Val("bool", 12, STATSFS_BOOL, STATSFS_SUM),
       Terminator >>

\* the arrays the producers of the tree-building specifications attach
Arrays == {"D", "E"}

Table(arr) ==
    IF arr = "D" THEN TableD ELSE IF arr = "K" THEN TableK ELSE TableE

\* the entries before the terminator
NumValues(arr) ==
    (CHOOSE i \in 1..Len(Table(arr)) :
        /\ Table(arr)[i].name = NULL_NAME
        /\ \A j \in 1..(i - 1) : Table(arr)[j].name # NULL_NAME) - 1

\* every descriptor pointer a caller can hold
Descriptors == UNION {{<<arr, i>> : i \in 1..NumValues(arr)} : arr \in Arrays}

Deref(val) == Table(val[1])[val[2]]

is_val_signed(val) == ((Deref(val).type \div STATSFS_SIGN) % 2) * STATSFS_SIGN

(***************************************************************************)
(* The bounds of the model.                                                *)
(***************************************************************************)
\* struct statsfs_source objects that can exist
NumSources == 3
\* backing structs of the producers
NumBases == 2
\* struct statsfs_value_source objects that can exist
MaxGroups == 3

Sources == 1..NumSources
\* the threads that call the API at the same time
NumThreads == 2
Threads == 1..NumThreads
NoThread == 0
\* the thread of the sequential specification
Caller == 1
Bases == 1..NumBases

\* sizeof the backing struct: a u64 at 0, an s32 at 8, a bool at 12
StructSize == 16
Offsets == 0..(StructSize - 1)

VARIABLES
    allocated,          \* source -> "none" | "live" | "freed" (kzalloc / kfree)
    refcount,           \* source -> kref
    values_head,        \* source -> list of struct statsfs_value_source
    subordinates_head,  \* source -> list of subordinate sources
    source_dentry,      \* source -> TRUE iff source_dentry != NULL
    held,               \* thread -> source -> references the thread holds
    revoked,            \* sources revoked since values were last attached to them
    mem,                \* base -> the bytes of the backing struct
    last,               \* what the last API call returned
    rwsem,              \* source -> the writer and the readers of its rwsem
    pc,                 \* thread -> the statement it is at
    call,               \* thread -> the API call it is in
    stack,              \* thread -> its frames: walks, puts, file removals
    acc,                \* thread -> the locals of its walk
    result,             \* thread -> what its last call returned
    ops                 \* thread -> the calls it has made

\* the registry: every field of every struct statsfs_source
heap == [allocated |-> allocated, refcount |-> refcount,
         values_head |-> values_head, subordinates_head |-> subordinates_head,
         source_dentry |-> source_dentry]

(***************************************************************************)
(* Leaf I/O: get_simple_value / clear_simple_value                         *)
(***************************************************************************)
\* the w bytes at address as an unsigned integer, zero-extended to 64 bits
LoadUnsigned(m, address, w) ==
    LET byte(k) == IF k < w THEN m[address[1]][address[2] + k] ELSE 0
    IN  [l \in 1..4 |-> byte(2 * (l - 1)) + 256 * byte(2 * (l - 1) + 1)]

\* the w bytes at address as a signed integer, sign-extended to 64 bits
LoadSigned(m, address, w) ==
    LET neg == m[address[1]][address[2] + w - 1] >= 128
        byte(k) == IF k < w THEN m[address[1]][address[2] + k]
                   ELSE IF neg THEN 255 ELSE 0
    IN  [l \in 1..4 |-> byte(2 * (l - 1)) + 256 * byte(2 * (l - 1) + 1)]

\* w zero bytes stored at address
StoreZero(m, address, w) ==
    [m EXCEPT ![address[1]] =
        [o \in Offsets |->
            IF o >= address[2] /\ o < address[2] + w THEN 0 ELSE @[o]]]

\* (mutant) every kind is loaded through the unsigned type of its width
get_simple_value_zero_extends(m, src, val) ==
    LET address == <<src.base_addr, Deref(val).offset>>
        type == Deref(val).type % STATSFS_SIGN
    IN  CASE type = STATSFS_U8 -> LoadUnsigned(m, address, 1)
          [] type = STATSFS_U16 -> LoadUnsigned(m, address, 2)
          [] type = STATSFS_U32 -> LoadUnsigned(m, address, 4)
          [] type = STATSFS_U64 -> LoadUnsigned(m, address, 8)
          [] type = STATSFS_BOOL -> LoadUnsigned(m, address, 1)
          [] OTHER -> U64Zero

get_simple_value(m, src, val) ==
    LET address == <<src.base_addr, Deref(val).offset>>
        type == Deref(val).type
    IN  CASE type = STATSFS_U8 -> LoadUnsigned(m, address, 1)
          [] type = STATSFS_U8 + STATSFS_SIGN -> LoadSigned(m, address, 1)
          [] type = STATSFS_U16 -> LoadUnsigned(m, address, 2)
          [] type = STATSFS_U16 + STATSFS_SIGN -> LoadSigned(m, address, 2)
          [] type = STATSFS_U32 -> LoadUnsigned(m, address, 4)
          [] type = STATSFS_U32 + STATSFS_SIGN -> LoadSigned(m, address, 4)
          [] type = STATSFS_U64 -> LoadUnsigned(m, address, 8)
          [] type = STATSFS_U64 + STATSFS_SIGN -> LoadSigned(m, address, 8)
          [] type = STATSFS_BOOL -> LoadUnsigned(m, address, 1)
          [] OTHER -> U64Zero

clear_simple_value(m, src, val) ==
    LET address == <<src.base_addr, Deref(val).offset>>
        type == Deref(val).type
    IN  CASE type = STATSFS_U8 -> StoreZero(m, address, 1)
          [] type = STATSFS_U8 + STATSFS_SIGN -> StoreZero(m, address, 1)
          [] type = STATSFS_U16 -> StoreZero(m, address, 2)
          [] type = STATSFS_U16 + STATSFS_SIGN -> StoreZero(m, address, 2)
          [] type = STATSFS_U32 -> StoreZero(m, address, 4)
          [] type = STATSFS_U32 + STATSFS_SIGN -> StoreZero(m, address, 4)
          [] type = STATSFS_U64 -> StoreZero(m, address, 8)
          [] type = STATSFS_U64 + STATSFS_SIGN -> StoreZero(m, address, 8)
          [] type = STATSFS_BOOL -> StoreZero(m, address, 1)
          [] OTHER -> m

(***************************************************************************)
(* Lookup of a descriptor in the starting source                           *)
(***************************************************************************)
\* (mutant) the entry is matched by its name and not by its address
find_value_by_its_name(src, val) ==
    IF /\ val # NULL_VALUE
       /\ \E i \in 1..NumValues(src.values) :
              Table(src.values)[i].name = Deref(val).name
    THEN val ELSE NULL_VALUE

\* find_value: the entry of the group's array that is val itself
find_value(src, val) ==
    IF \E i \in 1..NumValues(src.values) : <<src.values, i>> = val
    THEN val ELSE NULL_VALUE

\* search_value_in_source: the first group whose array holds arg;
\* 0 when there is none, else its position in the value list
search_value_in_source(h, source, arg) ==
    LET hits == {i \in 1..Len(h.values_head[source]) :
                    find_value(h.values_head[source][i], arg) # NULL_VALUE}
    IN  IF hits = {} THEN 0
        ELSE CHOOSE i \in hits : \A j \in hits : i <= j

(***************************************************************************)
(* The aggregation engine                                                  *)
(***************************************************************************)
\* (mutant) the unsigned bounds for every descriptor
init_aggregate_value_unsigned(val) ==
    [sum |-> U64Zero, count |-> 0, count_zero |-> 0,
     max |-> U64Zero, min |-> U64_MAX]

init_aggregate_value(val) ==
    IF is_val_signed(val) # 0
    THEN [sum |-> U64Zero, count |-> 0, count_zero |-> 0,
          max |-> S64_MIN, min |-> S64_MAX]
    ELSE [sum |-> U64Zero, count |-> 0, count_zero |-> 0,
          max |-> U64Zero, min |-> U64_MAX]

\* (mutant) a group is folded when its array has an entry with the name,
\* offset and kind of val
fold_simple_value_by_entry(m, src_entry, ref_src_entry, val, agg) ==
    IF src_entry.base_addr = NULL THEN agg
    ELSE IF \A i \in 1..NumValues(src_entry.values) :
                \/ Table(src_entry.values)[i].name # Deref(val).name
                \/ Table(src_entry.values)[i].offset # Deref(val).offset
                \/ Table(src_entry.values)[i].type # Deref(val).type
    THEN agg
    ELSE LET value_found == get_simple_value(m, src_entry, val)
         IN  [sum |-> U64Add(agg.sum, value_found),
              count |-> agg.count + 1,
              count_zero |-> agg.count_zero
                                + (IF value_found = U64Zero THEN 1 ELSE 0),
              max |-> IF is_val_signed(val) # 0
                      THEN (IF ~S64Less(value_found, agg.max)
                            THEN value_found ELSE agg.max)
                      ELSE (IF ~U64Less(value_found, agg.max)
                            THEN value_found ELSE agg.max),
              min |-> IF is_val_signed(val) # 0
                      THEN (IF ~S64Less(agg.min, value_found)
                            THEN value_found ELSE agg.min)
                      ELSE (IF ~U64Less(agg.min, value_found)
                            THEN value_found ELSE agg.min)]

\* (mutant) agg->count_zero += (value_found == 0) left out for signed kinds
fold_simple_value_unsigned_zeroes(m, src_entry, ref_src_entry, val, agg) ==
    IF src_entry.base_addr = NULL THEN agg
    ELSE IF src_entry.values # ref_src_entry.values THEN agg
    ELSE LET value_found == get_simple_value(m, src_entry, val)
         IN  [agg EXCEPT !.sum = U64Add(@, value_found),
                         !.count = @ + 1,
                         !.count_zero =
                             @ + (IF value_found = U64Zero
                                     /\ is_val_signed(val) = 0
                                  THEN 1 ELSE 0)]

\* (mutant) agg->sum = value_found in place of agg->sum += value_found
fold_simple_value_overwrites_sum(m, src_entry, ref_src_entry, val, agg) ==
    IF src_entry.base_addr = NULL THEN agg
    ELSE IF src_entry.values # ref_src_entry.values THEN agg
    ELSE LET value_found == get_simple_value(m, src_entry, val)
         IN  [agg EXCEPT !.sum = value_found, !.count = @ + 1]

\* the body of the loop of search_all_simple_values for one group
fold_simple_value(m, src_entry, ref_src_entry, val, agg) ==
    IF src_entry.base_addr = NULL THEN agg
    ELSE IF src_entry.values # ref_src_entry.values THEN agg
    ELSE LET value_found == get_simple_value(m, src_entry, val)
         IN  [sum |-> U64Add(agg.sum, value_found),
              count |-> agg.count + 1,
              count_zero |-> agg.count_zero
                                + (IF value_found = U64Zero THEN 1 ELSE 0),
              max |-> IF is_val_signed(val) # 0
                      THEN (IF ~S64Less(value_found, agg.max)
                            THEN value_found ELSE agg.max)
                      ELSE (IF ~U64Less(value_found, agg.max)
                            THEN value_found ELSE agg.max),
              min |-> IF is_val_signed(val) # 0
                      THEN (IF ~S64Less(agg.min, value_found)
                            THEN value_found ELSE agg.min)
                      ELSE (IF ~U64Less(agg.min, value_found)
                            THEN value_found ELSE agg.min)]

RECURSIVE fold_groups(_, _, _, _, _)
fold_groups(m, groups, ref_src_entry, val, agg) ==
    IF groups = <<>> THEN agg
    ELSE fold_groups(m, Tail(groups), ref_src_entry, val,
                     fold_simple_value(m, Head(groups), ref_src_entry, val, agg))

\* (mutant) the loop over the value list stops at the first group it folds
search_all_simple_values_breaks(h, m, src, ref_src_entry, val, agg) ==
    LET folded == SelectSeq(h.values_head[src],
                      LAMBDA g : /\ g.values = ref_src_entry.values
                                 /\ g.base_addr # NULL)
    IN  IF folded = <<>> THEN agg
        ELSE fold_simple_value(m, Head(folded), ref_src_entry, val, agg)

\* search_all_simple_values
search_all_simple_values(h, m, src, ref_src_entry, val, agg) ==
    fold_groups(m, h.values_head[src], ref_src_entry, val, agg)

RECURSIVE do_recursive_aggregation(_, _, _, _, _, _)
RECURSIVE aggregate_subordinates(_, _, _, _, _, _)
do_recursive_aggregation(h, m, root, ref_src_entry, val, agg) ==
    aggregate_subordinates(h, m, h.subordinates_head[root], ref_src_entry, val,
        search_all_simple_values(h, m, root, ref_src_entry, val, agg))

\* the list_for_each_entry loop of do_recursive_aggregation
aggregate_subordinates(h, m, subs, ref_src_entry, val, agg) ==
    IF subs = <<>> THEN agg
    ELSE aggregate_subordinates(h, m, Tail(subs), ref_src_entry, val,
             do_recursive_aggregation(h, m, Head(subs), ref_src_entry, val, agg))

\* (mutant) agg->sum / agg->count without the (int64_t) cast
store_final_value_unsigned_avg(agg, val) ==
    LET kind == Deref(val).aggr_kind
    IN  CASE kind = STATSFS_AVG ->
                IF agg.count # 0 THEN U64DivSmall(agg.sum, agg.count)
                ELSE U64Zero
          [] kind = STATSFS_SUM -> agg.sum
          [] kind = STATSFS_MIN -> agg.min
          [] kind = STATSFS_MAX -> agg.max
          [] kind = STATSFS_COUNT_ZERO -> U64Of(agg.count_zero)
          [] OTHER -> U64Zero

\* the value left in *ret, which statsfs_source_get_value_locked set to 0
store_final_value(agg, val) ==
    LET operation == Deref(val).aggr_kind + is_val_signed(val)
    IN  CASE operation = STATSFS_AVG ->
                IF agg.count # 0 THEN U64DivSmall(agg.sum, agg.count)
                ELSE U64Zero
          [] operation = STATSFS_AVG + STATSFS_SIGN ->
                IF agg.count # 0 THEN S64DivSmall(agg.sum, agg.count)
                ELSE U64Zero
          [] operation \in {STATSFS_SUM, STATSFS_SUM + STATSFS_SIGN} -> agg.sum
          [] operation \in {STATSFS_MIN, STATSFS_MIN + STATSFS_SIGN} -> agg.min
          [] operation \in {STATSFS_MAX, STATSFS_MAX + STATSFS_SIGN} -> agg.max
          [] operation \in {STATSFS_COUNT_ZERO,
                            STATSFS_COUNT_ZERO + STATSFS_SIGN} ->
                U64Of(agg.count_zero)
          [] OTHER -> U64Zero

\* (mutant) the path is chosen by aggr_kind and not by base_addr
statsfs_source_get_value_locked_by_kind(h, m, source, arg) ==
    IF arg = NULL_VALUE THEN [ret |-> -ENOENT, val |-> U64Zero]
    ELSE LET i == search_value_in_source(h, source, arg)
             src_entry == h.values_head[source][i]
         IN  IF i = 0 THEN [ret |-> -ENOENT, val |-> U64Zero]
             ELSE IF /\ src_entry.base_addr # NULL
                     /\ Deref(arg).aggr_kind = STATSFS_NONE
             THEN [ret |-> 0, val |-> get_simple_value(m, src_entry, arg)]
             ELSE [ret |-> 0,
                   val |-> store_final_value(
                              do_recursive_aggregation(h, m, source, src_entry,
                                  arg, init_aggregate_value(arg)), arg)]

\* statsfs_source_get_value_locked: the status and *ret
statsfs_source_get_value_locked(h, m, source, arg) ==
    IF arg = NULL_VALUE THEN [ret |-> -ENOENT, val |-> U64Zero]
    ELSE LET i == search_value_in_source(h, source, arg)
             src_entry == h.values_head[source][i]
         IN  IF i = 0 THEN [ret |-> -ENOENT, val |-> U64Zero]
             ELSE IF src_entry.base_addr # NULL
             THEN [ret |-> 0, val |-> get_simple_value(m, src_entry, arg)]
             ELSE [ret |-> 0,
                   val |-> store_final_value(
                              do_recursive_aggregation(h, m, source, src_entry,
                                  arg, init_aggregate_value(arg)), arg)]

(***************************************************************************)
(* Presentation state: source_dentry and files_created                     *)
(***************************************************************************)
\* list_del_init of the first entry equal to x
Without(seq, x) ==
    LET i == CHOOSE k \in 1..Len(seq) :
                 seq[k] = x /\ \A j \in 1..(k - 1) : seq[j] # x
    IN  SubSeq(seq, 1, i - 1) \o SubSeq(seq, i + 1, Len(seq))

\* statsfs_source_remove_files / statsfs_source_remove_files_locked
RECURSIVE statsfs_source_remove_files(_, _)
RECURSIVE remove_files_of(_, _)
statsfs_source_remove_files(h, src) ==
    IF ~h.source_dentry[src] THEN h
    ELSE LET h1 == remove_files_of(h, h.subordinates_head[src])
         IN  [h1 EXCEPT !.source_dentry[src] = FALSE]

remove_files_of(h, children) ==
    IF children = <<>> THEN h
    ELSE remove_files_of(statsfs_source_remove_files(h, Head(children)),
                         Tail(children))

\* statsfs_create_files_locked
statsfs_create_files_locked(h, source) ==
    IF ~h.source_dentry[source] THEN h
    ELSE [h EXCEPT !.values_head[source] =
            [i \in 1..Len(@) |-> [@[i] EXCEPT !.files_created = TRUE]]]

\* statsfs_create_files_recursive_locked
RECURSIVE statsfs_create_files_recursive_locked(_, _)
RECURSIVE create_files_of(_, _)
statsfs_create_files_recursive_locked(h, source) ==
    LET h1 == [h EXCEPT !.source_dentry[source] = TRUE]
    IN  create_files_of(statsfs_create_files_locked(h1, source),
                        h.subordinates_head[source])

create_files_of(h, children) ==
    IF children = <<>> THEN h
    ELSE create_files_of(
             IF ~h.source_dentry[Head(children)]
             THEN statsfs_create_files_recursive_locked(h, Head(children))
             ELSE h,
             Tail(children))

(***************************************************************************)
(* Reference counting and destruction                                      *)
(***************************************************************************)
\* statsfs_source_put (kref_put_rwsem), statsfs_source_destroy and
\* statsfs_source_remove_subordinate_locked, run to completion
RECURSIVE statsfs_source_put(_, _)
RECURSIVE statsfs_source_destroy(_, _)
RECURSIVE statsfs_source_remove_subordinate_locked(_, _, _)
RECURSIVE destroy_subordinates(_, _, _)
statsfs_source_put(h, source) ==
    IF h.refcount[source] # 1
    THEN [h EXCEPT !.refcount[source] = @ - 1]
    ELSE statsfs_source_destroy([h EXCEPT !.refcount[source] = 0], source)

statsfs_source_destroy(h, source) ==
    LET h1 == [h EXCEPT !.values_head[source] = <<>>]
        h2 == destroy_subordinates(h1, source, h1.subordinates_head[source])
        h3 == statsfs_source_remove_files(h2, source)
    IN  [h3 EXCEPT !.allocated[source] = "freed"]

\* the list_for_each_safe loop of statsfs_source_destroy
destroy_subordinates(h, source, children) ==
    IF children = <<>> THEN h
    ELSE destroy_subordinates(
             statsfs_source_remove_subordinate_locked(h, source, Head(children)),
             source, Tail(children))

\* (mutant) statsfs_source_put(sub) after the loop as well
statsfs_source_remove_subordinate_locked_puts_anyway(h, source, sub) ==
    IF \A i \in 1..Len(h.subordinates_head[source]) :
            h.subordinates_head[source][i] # sub
    THEN statsfs_source_put(h, sub)
    ELSE LET h1 == [h EXCEPT !.subordinates_head[source] = Without(@, sub)]
             h2 == statsfs_source_remove_files(h1, sub)
         IN  statsfs_source_put(h2, sub)

statsfs_source_remove_subordinate_locked(h, source, sub) ==
    IF \A i \in 1..Len(h.subordinates_head[source]) :
            h.subordinates_head[source][i] # sub
    THEN h
    ELSE LET h1 == [h EXCEPT !.subordinates_head[source] = Without(@, sub)]
             h2 == statsfs_source_remove_files(h1, sub)
         IN  statsfs_source_put(h2, sub)

(***************************************************************************)
(* Clearing: statsfs_source_clear_locked and its walk                      *)
(***************************************************************************)
\* (mutant) every group with a backing struct is cleared, whatever its array
clear_group_any_array(m, src_entry, ref_src_entry, val) ==
    IF src_entry.base_addr = NULL THEN m
    ELSE clear_simple_value(m, src_entry, val)

\* the body of the loop of set_all_simple_values for one group
clear_group(m, src_entry, ref_src_entry, val) ==
    IF src_entry.base_addr = NULL THEN m
    ELSE IF src_entry.values # ref_src_entry.values THEN m
    ELSE clear_simple_value(m, src_entry, val)

RECURSIVE set_all_simple_values(_, _, _, _)
set_all_simple_values(m, groups, ref_src_entry, val) ==
    IF groups = <<>> THEN m
    ELSE set_all_simple_values(clear_group(m, Head(groups), ref_src_entry, val),
                               Tail(groups), ref_src_entry, val)

RECURSIVE do_recursive_clean(_, _, _, _, _)
RECURSIVE clean_subordinates(_, _, _, _, _)
do_recursive_clean(h, m, root, ref_src_entry, val) ==
    clean_subordinates(h,
        set_all_simple_values(m, h.values_head[root], ref_src_entry, val),
        h.subordinates_head[root], ref_src_entry, val)

clean_subordinates(h, m, subs, ref_src_entry, val) ==
    IF subs = <<>> THEN m
    ELSE clean_subordinates(h,
             do_recursive_clean(h, m, Head(subs), ref_src_entry, val),
             Tail(subs), ref_src_entry, val)

\* (mutant) the subordinates are walked whatever the base of the group found
statsfs_source_clear_locked_always_recurses(h, m, source, val) ==
    IF val = NULL_VALUE THEN [ret |-> -ENOENT, mem |-> m]
    ELSE LET i == search_value_in_source(h, source, val)
             src_entry == h.values_head[source][i]
         IN  IF i = 0 THEN [ret |-> -ENOENT, mem |-> m]
             ELSE [ret |-> 0,
                   mem |-> do_recursive_clean(h, m, source, src_entry, val)]

\* the return value and the memory it leaves
statsfs_source_clear_locked(h, m, source, val) ==
    IF val = NULL_VALUE THEN [ret |-> -ENOENT, mem |-> m]
    ELSE LET i == search_value_in_source(h, source, val)
             src_entry == h.values_head[source][i]
         IN  IF i = 0 THEN [ret |-> -ENOENT, mem |-> m]
             ELSE IF src_entry.base_addr # NULL
             THEN [ret |-> 0, mem |-> clear_simple_value(m, src_entry, val)]
             ELSE [ret |-> 0,
                   mem |-> do_recursive_clean(h, m, source, src_entry, val)]

(***************************************************************************)
(* Lookup by name                                                          *)
(***************************************************************************)
\* (mutant) strcmp's result is taken for a match: the first entry whose
\* name differs
find_value_by_name_not_negated(src, name) ==
    LET hits == {i \in 1..NumValues(src.values) :
                    Table(src.values)[i].name # name}
    IN  IF hits = {} THEN NULL_VALUE
        ELSE <<src.values, CHOOSE i \in hits : \A j \in hits : i <= j>>

\* find_value_by_name: the first entry of the group's array named name
find_value_by_name(src, name) ==
    LET hits == {i \in 1..NumValues(src.values) :
                    Table(src.values)[i].name = name}
    IN  IF hits = {} THEN NULL_VALUE
        ELSE <<src.values, CHOOSE i \in hits : \A j \in hits : i <= j>>

RECURSIVE search_by_name_in(_, _)
search_by_name_in(groups, name) ==
    IF groups = <<>> THEN NULL_VALUE
    ELSE IF find_value_by_name(Head(groups), name) # NULL_VALUE
    THEN find_value_by_name(Head(groups), name)
    ELSE search_by_name_in(Tail(groups), name)

search_in_source_by_name(h, src, name) ==
    search_by_name_in(h.values_head[src], name)

statsfs_source_get_value_by_name(h, m, source, name) ==
    LET val == search_in_source_by_name(h, source, name)
    IN  IF val = NULL_VALUE THEN [ret |-> -ENOENT, val |-> U64Zero]
        ELSE statsfs_source_get_value_locked(h, m, source, val)

(***************************************************************************)
(* The API, each call run to completion                                    *)
(***************************************************************************)
SetHeap(h) ==
    /\ allocated' = h.allocated
    /\ refcount' = h.refcount
    /\ values_head' = h.values_head
    /\ subordinates_head' = h.subordinates_head
    /\ source_dentry' = h.source_dentry

heapVars == <<allocated, refcount, values_head, subordinates_head, source_dentry>>

\* the state of the threads, which the sequential calls leave alone
threadVars == <<rwsem, pc, call, stack, acc, result, ops>>

\* a call and what it returned: its status and, for the get variants, *ret;
\* the source and the argument are kept for the calls that change the registry
Result(op, src, arg, ret, val) ==
    [op |-> op, src |-> src, arg |-> arg, ret |-> ret, val |-> val]

NoSource == 0

NoCall == Result("none", NoSource, NULL_VALUE, 0, U64Zero)

\* the caller of an API function has taken the result of its previous call,
\* and holds a reference to the source it names
Holds(source) ==
    /\ last = NoCall
    /\ allocated[source] = "live"
    /\ held[Caller][source] > 0

\* the caller takes the result of the call
Return ==
    /\ last # NoCall
    /\ last' = NoCall
    /\ UNCHANGED <<allocated, refcount, values_head, subordinates_head,
                   source_dentry, held, revoked, mem>>
    /\ UNCHANGED threadVars

HasParent(sub) ==
    \E p \in Sources : allocated[p] = "live" /\
        \E i \in 1..Len(subordinates_head[p]) : subordinates_head[p][i] = sub

\* statsfs_source_create
Create(source) ==
    /\ last = NoCall
    /\ allocated[source] = "none"
    /\ SetHeap([heap EXCEPT !.allocated[source] = "live",
                            !.refcount[source] = 1,
                            !.values_head[source] = <<>>,
                            !.subordinates_head[source] = <<>>,
                            !.source_dentry[source] = FALSE])
    /\ held' = [held EXCEPT ![Caller][source] = 1]
    /\ last' = Result("create", source, NULL_VALUE, 0, U64Zero)
    /\ UNCHANGED <<revoked, mem>>
    /\ UNCHANGED threadVars

\* statsfs_source_create when an allocation fails: kzalloc of the source
\* returns NULL, or kstrdup of the name does and the source is freed again
CreateNoMem(source) ==
    /\ last = NoCall
    /\ allocated[source] = "none"
    /\ \/ UNCHANGED allocated
       \/ allocated' = [allocated EXCEPT ![source] = "freed"]
    /\ last' = Result("create", NoSource, NULL_VALUE, -ENOMEM, U64Zero)
    /\ UNCHANGED <<refcount, values_head, subordinates_head, source_dentry,
                   held, revoked, mem>>
    /\ UNCHANGED threadVars

\* statsfs_source_register
Register(source) ==
    /\ Holds(source)
    /\ SetHeap(statsfs_create_files_recursive_locked(heap, source))
    /\ last' = Result("register", source, NULL_VALUE, 0, U64Zero)
    /\ UNCHANGED <<held, revoked, mem>>
    /\ UNCHANGED threadVars

RECURSIVE SumLen(_, _)
SumLen(f, S) ==
    IF S = {} THEN 0
    ELSE LET x == CHOOSE y \in S : TRUE IN Len(f[x]) + SumLen(f, S \ {x})

\* the value groups allocated and not yet freed
NumGroups == SumLen(values_head, Sources)

\* (mutant) a group of the same array that lost its base is given the new one
statsfs_source_add_values_reuses_group(h, source, stat, ptr) ==
    LET list == h.values_head[source]
        Lost == {i \in 1..Len(list) :
                    list[i].values = stat /\ list[i].base_addr = NULL}
    IN  IF \E i \in 1..Len(list) :
               list[i].base_addr = ptr /\ list[i].values = stat
        THEN [ret |-> -EEXIST, heap |-> h]
        ELSE IF Lost # {}
        THEN LET i == CHOOSE j \in Lost : \A l \in Lost : j <= l
             IN  [ret |-> 0,
                  heap |-> [h EXCEPT !.values_head[source][i].base_addr = ptr]]
        ELSE LET val_src == [base_addr |-> ptr, values |-> stat,
                             files_created |-> FALSE]
                 h1 == [h EXCEPT !.values_head[source] = <<val_src>> \o @]
             IN  [ret |-> 0, heap |-> statsfs_create_files_locked(h1, source)]

\* (mutant) only the group at the head of the list is compared
statsfs_source_add_values_checks_head(h, source, stat, ptr) ==
    IF /\ h.values_head[source] # <<>>
       /\ h.values_head[source][1].base_addr = ptr
       /\ h.values_head[source][1].values = stat
    THEN [ret |-> -EEXIST, heap |-> h]
    ELSE LET val_src == [base_addr |-> ptr, values |-> stat,
                         files_created |-> FALSE]
             h1 == [h EXCEPT !.values_head[source] = <<val_src>> \o @]
         IN  [ret |-> 0, heap |-> statsfs_create_files_locked(h1, source)]

\* (mutant) the list is not searched for an equal (base, array) pair
statsfs_source_add_values_unchecked(h, source, stat, ptr) ==
    LET val_src == [base_addr |-> ptr, values |-> stat, files_created |-> FALSE]
        h1 == [h EXCEPT !.values_head[source] = <<val_src>> \o @]
    IN  [ret |-> 0, heap |-> statsfs_create_files_locked(h1, source)]

\* statsfs_source_add_values
statsfs_source_add_values(h, source, stat, ptr) ==
    IF \E i \in 1..Len(h.values_head[source]) :
           /\ h.values_head[source][i].base_addr = ptr
           /\ h.values_head[source][i].values = stat
    THEN [ret |-> -EEXIST, heap |-> h]
    ELSE LET val_src == [base_addr |-> ptr, values |-> stat,
                         files_created |-> FALSE]
             h1 == [h EXCEPT !.values_head[source] = <<val_src>> \o @]
         IN  [ret |-> 0, heap |-> statsfs_create_files_locked(h1, source)]

\* the producer may attach groups back to back, without another call between
AddValues(source, stat, ptr) ==
    /\ last = NoCall \/ last.op = "add_values"
    /\ allocated[source] = "live" /\ held[Caller][source] > 0
    /\ LET r == statsfs_source_add_values(heap, source, stat, ptr)
       IN  /\ r.ret = 0 => NumGroups < MaxGroups
           /\ SetHeap(r.heap)
           /\ revoked' = IF r.ret = 0 THEN revoked \ {source} ELSE revoked
           /\ last' = Result("add_values", source, <<stat, ptr>>, r.ret, U64Zero)
    /\ UNCHANGED <<held, mem>>
    /\ UNCHANGED threadVars

\* what create_value_source returns when kzalloc fails, taken for a
\* struct statsfs_value_source: no object stands behind it
ERR_PTR_ENOMEM ==
    [base_addr |-> NULL, values |-> "ERR_PTR", files_created |-> FALSE]

\* statsfs_source_add_values when kzalloc fails in create_value_source: the
\* ERR_PTR is not tested and val_src->values is stored through it.  The
\* store faults and the kernel stops the caller inside the call, which
\* leaves the rwsem write-locked; or the address is mapped, the call goes
\* on, links the invalid pointer into values_head and returns 0.
AddValuesNoMem(source, stat, ptr) ==
    /\ Holds(source)
    /\ statsfs_source_add_values(heap, source, stat, ptr).ret = 0
    /\ NumGroups < MaxGroups
    /\ \/ /\ last' = Result("oops", source, <<stat, ptr>>, 0, U64Zero)
          /\ rwsem' = [rwsem EXCEPT ![source].writer = Caller]
          /\ UNCHANGED values_head
       \/ /\ last' = Result("add_values", source, <<stat, ptr>>, 0, U64Zero)
          /\ values_head' = [values_head EXCEPT
                                ![source] = <<ERR_PTR_ENOMEM>> \o @]
          /\ UNCHANGED rwsem
    /\ UNCHANGED <<allocated, refcount, subordinates_head, source_dentry,
                   held, revoked, mem>>
    /\ UNCHANGED <<pc, call, stack, acc, result, ops>>

\* (mutant) list_add followed by list_add_tail of the same node
statsfs_source_add_subordinate_both_ends(h, source, sub) ==
    LET h1 == [h EXCEPT !.refcount[sub] = @ + 1,
                        !.subordinates_head[source] = <<sub>> \o @ \o <<sub>>]
    IN  IF h1.source_dentry[source]
        THEN statsfs_create_files_recursive_locked(h1, sub)
        ELSE h1

\* (mutant) the parent takes two references to the subordinate
statsfs_source_add_subordinate_gets_twice(h, source, sub) ==
    LET h1 == [h EXCEPT !.refcount[sub] = @ + 2,
                        !.subordinates_head[source] = <<sub>> \o @]
    IN  IF h1.source_dentry[source]
        THEN statsfs_create_files_recursive_locked(h1, sub)
        ELSE h1

\* (mutant) the subordinate is linked without statsfs_source_get(sub)
statsfs_source_add_subordinate_no_get(h, source, sub) ==
    LET h1 == [h EXCEPT !.subordinates_head[source] = <<sub>> \o @]
    IN  IF h1.source_dentry[source]
        THEN statsfs_create_files_recursive_locked(h1, sub)
        ELSE h1

\* statsfs_source_add_subordinate; its callers link a source under one
\* parent at a time and create no cycle (here: under a source of lower index)
statsfs_source_add_subordinate(h, source, sub) ==
    LET h1 == [h EXCEPT !.refcount[sub] = @ + 1,
                        !.subordinates_head[source] = <<sub>> \o @]
    IN  IF h1.source_dentry[source]
        THEN statsfs_create_files_recursive_locked(h1, sub)
        ELSE h1

AddSubordinate(source, sub) ==
    /\ Holds(source) /\ Holds(sub)
    /\ ~HasParent(sub)
    /\ source < sub
    /\ SetHeap(statsfs_source_add_subordinate(heap, source, sub))
    /\ last' = Result("add_subordinate", source, <<"", sub>>, 0, U64Zero)
    /\ UNCHANGED <<held, revoked, mem>>
    /\ UNCHANGED threadVars

\* statsfs_source_remove_subordinate
RemoveSubordinate(source, sub) ==
    /\ Holds(source) /\ allocated[sub] = "live"
    /\ SetHeap(statsfs_source_remove_subordinate_locked(heap, source, sub))
    /\ last' = Result("remove_subordinate", NoSource, NULL_VALUE, 0, U64Zero)
    /\ UNCHANGED <<held, revoked, mem>>
    /\ UNCHANGED threadVars

\* (mutant) only the group at the head of the list is disconnected
statsfs_source_revoke_head_only(h, source) ==
    IF h.values_head[source] = <<>> THEN h
    ELSE [h EXCEPT !.values_head[source][1].base_addr = NULL]

\* statsfs_source_revoke
statsfs_source_revoke(h, source) ==
    [h EXCEPT !.values_head[source] =
        [i \in 1..Len(@) |-> [@[i] EXCEPT !.base_addr = NULL]]]

Revoke(source) ==
    /\ Holds(source)
    /\ SetHeap(statsfs_source_revoke(heap, source))
    /\ revoked' = IF values_head[source] # <<>> THEN revoked \cup {source}
                  ELSE revoked
    /\ last' = Result("revoke", source, NULL_VALUE, 0, U64Zero)
    /\ UNCHANGED <<held, mem>>
    /\ UNCHANGED threadVars

\* statsfs_source_get_value
GetValue(source, arg) ==
    /\ Holds(source)
    /\ LET r == statsfs_source_get_value_locked(heap, mem, source, arg)
       IN  last' = Result("get_value", source, arg, r.ret, r.val)
    /\ UNCHANGED <<heapVars, held, revoked, mem>>
    /\ UNCHANGED threadVars

\* statsfs_source_get_value_by_name
GetValueByName(source, name) ==
    /\ Holds(source)
    /\ LET r == statsfs_source_get_value_by_name(heap, mem, source, name)
       IN  last' = Result("get_value_by_name", source, <<name, 0>>, r.ret, r.val)
    /\ UNCHANGED <<heapVars, held, revoked, mem>>
    /\ UNCHANGED threadVars

\* statsfs_source_clear
Clear(source, val) ==
    /\ Holds(source)
    /\ LET r == statsfs_source_clear_locked(heap, mem, source, val)
       IN  /\ mem' = r.mem
           /\ last' = Result("clear", source, val, r.ret, U64Zero)
    /\ UNCHANGED <<heapVars, held, revoked>>
    /\ UNCHANGED threadVars

\* statsfs_source_get_value on what the caller has just cleared
ReadBack ==
    /\ last.op = "clear" /\ last.ret = 0
    /\ LET r == statsfs_source_get_value_locked(heap, mem, last.src, last.arg)
       IN  last' = Result("get_value", last.src, last.arg, r.ret, r.val)
    /\ UNCHANGED <<heapVars, held, revoked, mem>>
    /\ UNCHANGED threadVars

\* statsfs_source_get
Get(source) ==
    /\ Holds(source)
    /\ refcount' = [refcount EXCEPT ![source] = @ + 1]
    /\ held' = [held EXCEPT ![Caller][source] = @ + 1]
    /\ last' = Result("get", source, NULL_VALUE, 0, U64Zero)
    /\ UNCHANGED <<allocated, values_head, subordinates_head, source_dentry,
                   revoked, mem>>
    /\ UNCHANGED threadVars

\* statsfs_source_put
Put(source) ==
    /\ Holds(source)
    /\ SetHeap(statsfs_source_put(heap, source))
    /\ held' = [held EXCEPT ![Caller][source] = @ - 1]
    /\ last' = Result("put", source, NULL_VALUE, 0, U64Zero)
    /\ UNCHANGED <<revoked, mem>>
    /\ UNCHANGED threadVars

(***************************************************************************)
(* Threads: the API statement by statement, under the sources' rwsems      *)
(***************************************************************************)
\* calls of thread 1; the other threads make one call each
MaxOps == 2
Budget(t) == IF t = 1 THEN MaxOps ELSE 1
\* references a thread takes on one source
MaxHeld == 2

Unlocked == [writer |-> NoThread, readers |-> {}]

\* down_read / down_write can be taken
CanDownRead(source) == rwsem[source].writer = NoThread
CanDownWrite(source) ==
    /\ rwsem[source].writer = NoThread
    /\ rwsem[source].readers = {}

down_read(t, source) == [rwsem EXCEPT ![source].readers = @ \cup {t}]
up_read(t, source) == [rwsem EXCEPT ![source].readers = @ \ {t}]
down_write(t, source) == [rwsem EXCEPT ![source].writer = t]
up_write(t, source) ==
    [rwsem EXCEPT ![source].writer = IF @ = t THEN NoThread ELSE @]

\* a frame of a thread: the walk of source src (g, c: the next group and the
\* next subordinate), the put of src, or the removal of the files of src;
\* ret is the statement the thread goes on with when the frame is done
Frame(kind, src, g, c, ret) ==
    [kind |-> kind, src |-> src, g |-> g, c |-> c, ret |-> ret]

Top(t) == stack[t][Len(stack[t])]
Pop(t) == SubSeq(stack[t], 1, Len(stack[t]) - 1)
SetTop(t, f) == Append(Pop(t), f)

Call(op, src, sub, arg, ptr, name) ==
    [op |-> op, src |-> src, sub |-> sub, arg |-> arg, ptr |-> ptr,
     name |-> name]
NoOp == Call("none", NoSource, NoSource, NULL_VALUE, NULL, NULL_NAME)

NoGroup == [base_addr |-> NULL, values |-> "", files_created |-> FALSE]
NoAcc == [agg |-> init_aggregate_value(<<"D", 1>>), ref |-> NoGroup,
          val |-> NULL_VALUE, ret |-> 0, out |-> U64Zero]

\* no thread is inside a call and no rwsem is taken
ThreadsAtRest ==
    /\ rwsem = [s \in Sources |-> Unlocked]
    /\ pc = [t \in Threads |-> "idle"]
    /\ call = [t \in Threads |-> NoOp]
    /\ stack = [t \in Threads |-> <<>>]
    /\ acc = [t \in Threads |-> NoAcc]
    /\ result = [t \in Threads |-> NoCall]

ThreadsIdle ==
    /\ ThreadsAtRest
    /\ ops = [t \in Threads |-> 0]

\* thread t may name source in a call: it holds a reference to it
MayCall(t, source) ==
    /\ pc[t] = "idle"
    /\ ops[t] < Budget(t)
    /\ held[t][source] > 0

\* thread t enters the call and goes to its first statement
Enter(t, c, label) ==
    /\ call' = [call EXCEPT ![t] = c]
    /\ pc' = [pc EXCEPT ![t] = label]
    /\ ops' = [ops EXCEPT ![t] = @ + 1]

\* the calls whose result is kept: the reads and open
ReportedOps == {"get_value", "get_value_by_name", "clear", "open"}

\* thread t returns from its call
Leave(t, ret, val) ==
    /\ pc' = [pc EXCEPT ![t] = "idle"]
    /\ result' = [result EXCEPT ![t] =
                      IF call[t].op \in ReportedOps
                      THEN Result(call[t].op, call[t].src, call[t].arg, ret, val)
                      ELSE NoCall]
    /\ call' = [call EXCEPT ![t] = NoOp]

\* the calls that read: statsfs_source_get_value, _get_value_by_name, _clear
ReadOps == {"get_value", "get_value_by_name", "clear"}

StartRead(t, op, source, arg, name) ==
    /\ MayCall(t, source)
    /\ Enter(t, Call(op, source, NoSource, arg, NULL, name), "rd_lock")
    /\ UNCHANGED <<heapVars, held, revoked, mem, last, rwsem, stack, acc, result>>

\* down_read(&source->rwsem)
RdLock(t) ==
    /\ pc[t] = "rd_lock"
    /\ CanDownRead(call[t].src)
    /\ rwsem' = down_read(t, call[t].src)
    /\ pc' = [pc EXCEPT ![t] = "rd_search"]
    /\ UNCHANGED <<heapVars, held, revoked, mem, last, call, stack, acc, result, ops>>

\* the lookup of statsfs_source_get_value_locked / _clear_locked, after
\* search_in_source_by_name for the by-name call
RdSearch(t) ==
    /\ pc[t] = "rd_search"
    /\ LET c == call[t]
           val == IF c.op = "get_value_by_name"
                  THEN search_in_source_by_name(heap, c.src, c.name)
                  ELSE c.arg
           i == IF val = NULL_VALUE THEN 0
                ELSE search_value_in_source(heap, c.src, val)
       IN  IF i = 0
           THEN /\ acc' = [acc EXCEPT ![t] = [NoAcc EXCEPT !.ret = -ENOENT]]
                /\ pc' = [pc EXCEPT ![t] = "rd_unlock"]
                /\ UNCHANGED stack
           ELSE LET src_entry == values_head[c.src][i]
                IN  IF src_entry.base_addr # NULL
                    THEN /\ acc' = [acc EXCEPT ![t] =
                                [NoAcc EXCEPT !.ref = src_entry, !.val = val]]
                         /\ stack' = [stack EXCEPT ![t] =
                                <<Frame("walk", c.src, i, 1, "rd_unlock")>>]
                         /\ pc' = [pc EXCEPT ![t] = "rd_simple"]
                    ELSE /\ acc' = [acc EXCEPT ![t] =
                                [NoAcc EXCEPT !.agg = init_aggregate_value(val),
                                              !.ref = src_entry, !.val = val]]
                         /\ stack' = [stack EXCEPT ![t] =
                                <<Frame("walk", c.src, 1, 1, "rd_unlock")>>]
                         /\ pc' = [pc EXCEPT ![t] = "walk"]
    /\ UNCHANGED <<heapVars, held, revoked, mem, last, rwsem, call, result, ops>>

\* the group at position g of source, as a walker finds it; NoGroup when the
\* list no longer has it
GroupAt(source, g) ==
    IF g <= Len(values_head[source]) THEN values_head[source][g] ELSE NoGroup

\* get_simple_value / clear_simple_value on the group found at the root
RdSimple(t) ==
    /\ pc[t] = "rd_simple"
    /\ LET f == Top(t)
           src_entry == GroupAt(f.src, f.g)
       IN  IF call[t].op = "clear"
           THEN /\ mem' = clear_group(mem, src_entry, src_entry, acc[t].val)
                /\ UNCHANGED acc
           ELSE /\ acc' = [acc EXCEPT ![t].out =
                            IF src_entry.base_addr = NULL THEN U64Zero
                            ELSE get_simple_value(mem, src_entry, acc[t].val)]
                /\ UNCHANGED mem
    /\ stack' = [stack EXCEPT ![t] = <<>>]
    /\ pc' = [pc EXCEPT ![t] = "rd_unlock"]
    /\ UNCHANGED <<heapVars, held, revoked, last, rwsem, call, result, ops>>

\* search_all_simple_values / set_all_simple_values: the two tests on the
\* next group of the source being walked
WalkGroup(t) ==
    /\ pc[t] = "walk"
    /\ LET f == Top(t)
           src_entry == GroupAt(f.src, f.g)
       IN  /\ f.g <= Len(values_head[f.src])
           /\ IF \/ src_entry.base_addr = NULL
                 \/ src_entry.values # acc[t].ref.values
              THEN /\ stack' = [stack EXCEPT ![t] = SetTop(t, [f EXCEPT !.g = @ + 1])]
                   /\ UNCHANGED pc
              ELSE /\ pc' = [pc EXCEPT ![t] = "walk_read"]
                   /\ UNCHANGED stack
    /\ UNCHANGED <<heapVars, held, revoked, mem, last, rwsem, call, acc, result, ops>>

\* ... and the access to the backing struct of that group
WalkReadGroup(t) ==
    /\ pc[t] = "walk_read"
    /\ LET f == Top(t)
           src_entry == GroupAt(f.src, f.g)
       IN  /\ IF call[t].op = "clear"
              THEN /\ mem' = clear_group(mem, src_entry, acc[t].ref, acc[t].val)
                   /\ UNCHANGED acc
              ELSE /\ acc' = [acc EXCEPT ![t].agg =
                               fold_simple_value(mem, src_entry, acc[t].ref,
                                                 acc[t].val, @)]
                   /\ UNCHANGED mem
           /\ stack' = [stack EXCEPT ![t] = SetTop(t, [f EXCEPT !.g = @ + 1])]
    /\ pc' = [pc EXCEPT ![t] = "walk"]
    /\ UNCHANGED <<heapVars, held, revoked, last, rwsem, call, result, ops>>

\* (mutant) the walk enters the subordinate without down_read
WalkDescend_unlocked(t) ==
    /\ pc[t] = "walk"
    /\ LET f == Top(t)
       IN  /\ f.g > Len(values_head[f.src])
           /\ f.c <= Len(subordinates_head[f.src])
           /\ stack' = [stack EXCEPT ![t] =
                  Append(SetTop(t, [f EXCEPT !.c = @ + 1]),
                         Frame("walk", subordinates_head[f.src][f.c], 1, 1,
                               "walk"))]
    /\ UNCHANGED <<heapVars, held, revoked, mem, last, rwsem, pc, call, acc,
                   result, ops>>

\* (mutant) the walk gives up the parent's rwsem when it takes the
\* subordinate's
WalkDescend_hand_over_hand(t) ==
    /\ pc[t] = "walk"
    /\ LET f == Top(t)
       IN  /\ f.g > Len(values_head[f.src])
           /\ f.c <= Len(subordinates_head[f.src])
           /\ LET subordinate == subordinates_head[f.src][f.c]
              IN  /\ CanDownRead(subordinate)
                  /\ rwsem' = [rwsem EXCEPT
                                  ![f.src].readers = @ \ {t},
                                  ![subordinate].readers = @ \cup {t}]
                  /\ stack' = [stack EXCEPT ![t] =
                         Append(SetTop(t, [f EXCEPT !.c = @ + 1]),
                                Frame("walk", subordinate, 1, 1, "walk"))]
    /\ UNCHANGED <<heapVars, held, revoked, mem, last, pc, call, acc, result, ops>>

\* do_recursive_aggregation / do_recursive_clean: down_read of the next
\* subordinate and the recursive call
WalkDescend(t) ==
    /\ pc[t] = "walk"
    /\ LET f == Top(t)
       IN  /\ f.g > Len(values_head[f.src])
           /\ f.c <= Len(subordinates_head[f.src])
           /\ LET subordinate == subordinates_head[f.src][f.c]
              IN  /\ CanDownRead(subordinate)
                  /\ rwsem' = down_read(t, subordinate)
                  /\ stack' = [stack EXCEPT ![t] =
                         Append(SetTop(t, [f EXCEPT !.c = @ + 1]),
                                Frame("walk", subordinate, 1, 1, "walk"))]
    /\ UNCHANGED <<heapVars, held, revoked, mem, last, pc, call, acc, result, ops>>

\* ... the return from the recursive call and up_read of the subordinate
WalkAscend(t) ==
    /\ pc[t] = "walk"
    /\ Len(stack[t]) > 1
    /\ LET f == Top(t)
       IN  /\ f.g > Len(values_head[f.src])
           /\ f.c > Len(subordinates_head[f.src])
           /\ rwsem' = up_read(t, f.src)
    /\ stack' = [stack EXCEPT ![t] = Pop(t)]
    /\ UNCHANGED <<heapVars, held, revoked, mem, last, pc, call, acc, result, ops>>

\* the walk is back at the root: store_final_value
WalkFinish(t) ==
    /\ pc[t] = "walk"
    /\ Len(stack[t]) = 1
    /\ LET f == Top(t)
       IN  /\ f.g > Len(values_head[f.src])
           /\ f.c > Len(subordinates_head[f.src])
    /\ acc' = [acc EXCEPT ![t].out =
                  IF call[t].op = "clear" THEN U64Zero
                  ELSE store_final_value(acc[t].agg, acc[t].val)]
    /\ stack' = [stack EXCEPT ![t] = <<>>]
    /\ pc' = [pc EXCEPT ![t] = "rd_unlock"]
    /\ UNCHANGED <<heapVars, held, revoked, mem, last, rwsem, call, result, ops>>

\* up_read(&source->rwsem) and the return
RdUnlock(t) ==
    /\ pc[t] = "rd_unlock"
    /\ rwsem' = up_read(t, call[t].src)
    /\ Leave(t, acc[t].ret, acc[t].out)
    /\ acc' = [acc EXCEPT ![t] = NoAcc]
    /\ UNCHANGED <<heapVars, held, revoked, mem, last, stack, ops>>

\* statsfs_source_add_values
StartAddValues(t, source, stat, ptr) ==
    /\ MayCall(t, source)
    /\ NumGroups < MaxGroups
    /\ Enter(t, Call("add_values", source, NoSource, <<stat, 0>>, ptr, NULL_NAME),
             "av_lock")
    /\ UNCHANGED <<heapVars, held, revoked, mem, last, rwsem, stack, acc, result>>

\* down_write(&source->rwsem)
AvLock(t) ==
    /\ pc[t] = "av_lock"
    /\ CanDownWrite(call[t].src)
    /\ rwsem' = down_write(t, call[t].src)
    /\ pc' = [pc EXCEPT ![t] = "av_body"]
    /\ UNCHANGED <<heapVars, held, revoked, mem, last, call, stack, acc, result, ops>>

\* the search for a duplicate, list_add, the files, up_write and the return
AvBody(t) ==
    /\ pc[t] = "av_body"
    /\ LET c == call[t]
           r == statsfs_source_add_values(heap, c.src, c.arg[1], c.ptr)
       IN  /\ SetHeap(r.heap)
           /\ revoked' = IF r.ret = 0 THEN revoked \ {c.src} ELSE revoked
           /\ Leave(t, r.ret, U64Zero)
    /\ rwsem' = up_write(t, call[t].src)
    /\ UNCHANGED <<held, mem, last, stack, acc, ops>>

\* statsfs_source_add_subordinate; the callers give a source one parent and
\* make no cycle
StartAddSubordinate(t, source, sub) ==
    /\ MayCall(t, source)
    /\ held[t][sub] > 0
    /\ source < sub
    /\ ~HasParent(sub)
    /\ \A u \in Threads : call[u].op = "add_subordinate" => call[u].sub # sub
    /\ Enter(t, Call("add_subordinate", source, sub, NULL_VALUE, NULL, NULL_NAME),
             "as_lock")
    /\ UNCHANGED <<heapVars, held, revoked, mem, last, rwsem, stack, acc, result>>

AsLock(t) ==
    /\ pc[t] = "as_lock"
    /\ CanDownWrite(call[t].src)
    /\ rwsem' = down_write(t, call[t].src)
    /\ pc' = [pc EXCEPT ![t] = "as_body"]
    /\ UNCHANGED <<heapVars, held, revoked, mem, last, call, stack, acc, result, ops>>

\* statsfs_source_get(sub), list_add, the files, up_write and the return
AsBody(t) ==
    /\ pc[t] = "as_body"
    /\ SetHeap(statsfs_source_add_subordinate(heap, call[t].src, call[t].sub))
    /\ rwsem' = up_write(t, call[t].src)
    /\ Leave(t, 0, U64Zero)
    /\ UNCHANGED <<held, revoked, mem, last, stack, acc, ops>>

\* statsfs_source_revoke
StartRevoke(t, source) ==
    /\ MayCall(t, source)
    /\ Enter(t, Call("revoke", source, NoSource, NULL_VALUE, NULL, NULL_NAME),
             "rv_lock")
    /\ UNCHANGED <<heapVars, held, revoked, mem, last, rwsem, stack, acc, result>>

\* (mutant) revoke does not wait for the readers of the source
RvLock_not_exclusive(t) ==
    /\ pc[t] = "rv_lock"
    /\ pc' = [pc EXCEPT ![t] = "rv_body"]
    /\ UNCHANGED <<heapVars, held, revoked, mem, last, rwsem, call, stack, acc,
                   result, ops>>

RvLock(t) ==
    /\ pc[t] = "rv_lock"
    /\ CanDownWrite(call[t].src)
    /\ rwsem' = down_write(t, call[t].src)
    /\ pc' = [pc EXCEPT ![t] = "rv_body"]
    /\ UNCHANGED <<heapVars, held, revoked, mem, last, call, stack, acc, result, ops>>

\* (mutant) revoke zeroes the structs it disconnects
RvBody_scrubs(t) ==
    /\ pc[t] = "rv_body"
    /\ SetHeap(statsfs_source_revoke(heap, call[t].src))
    /\ revoked' = IF values_head[call[t].src] # <<>>
                  THEN revoked \cup {call[t].src} ELSE revoked
    /\ mem' = [b \in Bases |->
                 IF \E i \in 1..Len(values_head[call[t].src]) :
                        values_head[call[t].src][i].base_addr = b
                 THEN [o \in Offsets |-> 0] ELSE mem[b]]
    /\ rwsem' = up_write(t, call[t].src)
    /\ Leave(t, 0, U64Zero)
    /\ UNCHANGED <<held, last, stack, acc, ops>>

\* the loop that nulls every base_addr, up_write and the return
RvBody(t) ==
    /\ pc[t] = "rv_body"
    /\ SetHeap(statsfs_source_revoke(heap, call[t].src))
    /\ revoked' = IF values_head[call[t].src] # <<>>
                  THEN revoked \cup {call[t].src} ELSE revoked
    /\ rwsem' = up_write(t, call[t].src)
    /\ Leave(t, 0, U64Zero)
    /\ UNCHANGED <<held, mem, last, stack, acc, ops>>

\* statsfs_source_get
ThreadGet(t, source) ==
    /\ MayCall(t, source)
    /\ held[t][source] < MaxHeld
    /\ refcount' = [refcount EXCEPT ![source] = @ + 1]
    /\ held' = [held EXCEPT ![t][source] = @ + 1]
    /\ ops' = [ops EXCEPT ![t] = @ + 1]
    /\ result' = [result EXCEPT ![t] = NoCall]
    /\ UNCHANGED <<allocated, values_head, subordinates_head, source_dentry,
                   revoked, mem, last, rwsem, pc, call, stack, acc>>

\* statsfs_source_remove_subordinate; sub is only compared with the entries
StartRemoveSubordinate(t, source, sub) ==
    /\ MayCall(t, source)
    /\ sub # source
    /\ Enter(t, Call("remove_subordinate", source, sub, NULL_VALUE, NULL,
                     NULL_NAME), "rs_lock")
    /\ UNCHANGED <<heapVars, held, revoked, mem, last, rwsem, stack, acc, result>>

RsLock(t) ==
    /\ pc[t] = "rs_lock"
    /\ CanDownWrite(call[t].src)
    /\ rwsem' = down_write(t, call[t].src)
    /\ pc' = [pc EXCEPT ![t] = "rs_search"]
    /\ UNCHANGED <<heapVars, held, revoked, mem, last, call, stack, acc, result, ops>>

\* the frames of list_del_init's two callees: statsfs_source_remove_files(sub)
\* and then statsfs_source_put(sub), after which the thread goes on at ret
RemoveFrames(sub, ret) ==
    <<Frame("put", sub, 0, 0, ret),
      Frame("rmfiles", sub, 0, 1, "put_dec_not_one")>>

\* statsfs_source_remove_subordinate_locked: the search and list_del_init
RsSearch(t) ==
    /\ pc[t] = "rs_search"
    /\ LET c == call[t]
       IN  IF \A i \in 1..Len(subordinates_head[c.src]) :
                   subordinates_head[c.src][i] # c.sub
           THEN /\ pc' = [pc EXCEPT ![t] = "rs_unlock"]
                /\ UNCHANGED <<subordinates_head, stack>>
           ELSE /\ subordinates_head' =
                       [subordinates_head EXCEPT ![c.src] = Without(@, c.sub)]
                /\ stack' = [stack EXCEPT ![t] = RemoveFrames(c.sub, "rs_unlock")]
                /\ pc' = [pc EXCEPT ![t] = "rmfiles_lock"]
    /\ UNCHANGED <<allocated, refcount, values_head, source_dentry, held,
                   revoked, mem, last, rwsem, call, acc, result, ops>>

\* (mutant) remove_subordinate returns without up_write
RsUnlock_no_up_write(t) ==
    /\ pc[t] = "rs_unlock"
    /\ Leave(t, 0, U64Zero)
    /\ UNCHANGED <<heapVars, held, revoked, mem, last, rwsem, stack, acc, ops>>

\* up_write(&source->rwsem) and the return
RsUnlock(t) ==
    /\ pc[t] = "rs_unlock"
    /\ rwsem' = up_write(t, call[t].src)
    /\ Leave(t, 0, U64Zero)
    /\ UNCHANGED <<heapVars, held, revoked, mem, last, stack, acc, ops>>

\* statsfs_source_remove_files: down_write(&src->rwsem)
RmfilesLock(t) ==
    /\ pc[t] = "rmfiles_lock"
    /\ CanDownWrite(Top(t).src)
    /\ rwsem' = down_write(t, Top(t).src)
    /\ pc' = [pc EXCEPT ![t] = "rmfiles_body"]
    /\ UNCHANGED <<heapVars, held, revoked, mem, last, call, stack, acc, result, ops>>

\* statsfs_source_remove_files_locked: nothing without a dentry; else the
\* files of each subordinate, then the source's own dentry; and up_write
RmfilesBody(t) ==
    /\ pc[t] = "rmfiles_body"
    /\ LET f == Top(t)
       IN  IF source_dentry[f.src] /\ f.c <= Len(subordinates_head[f.src])
           THEN /\ stack' = [stack EXCEPT ![t] =
                       Append(SetTop(t, [f EXCEPT !.c = @ + 1]),
                              Frame("rmfiles", subordinates_head[f.src][f.c],
                                    0, 1, "rmfiles_body"))]
                /\ pc' = [pc EXCEPT ![t] = "rmfiles_lock"]
                /\ UNCHANGED <<source_dentry, rwsem>>
           ELSE /\ source_dentry' = [source_dentry EXCEPT ![f.src] = FALSE]
                /\ rwsem' = up_write(t, f.src)
                /\ stack' = [stack EXCEPT ![t] = Pop(t)]
                /\ pc' = [pc EXCEPT ![t] = f.ret]
    /\ UNCHANGED <<allocated, refcount, values_head, subordinates_head, held,
                   revoked, mem, last, call, acc, result, ops>>

\* statsfs_source_put: the caller gives its reference away
StartPut(t, source) ==
    /\ MayCall(t, source)
    /\ held' = [held EXCEPT ![t][source] = @ - 1]
    /\ stack' = [stack EXCEPT ![t] = <<Frame("put", source, 0, 0, "return")>>]
    /\ Enter(t, Call("put", source, NoSource, NULL_VALUE, NULL, NULL_NAME),
             "put_dec_not_one")
    /\ UNCHANGED <<heapVars, revoked, mem, last, rwsem, acc, result>>

\* kref_put_rwsem: the decrement without the lock while others hold references
PutDecNotOne(t) ==
    /\ pc[t] = "put_dec_not_one"
    /\ LET f == Top(t)
       IN  IF refcount[f.src] # 1
           THEN /\ refcount' = [refcount EXCEPT ![f.src] = @ - 1]
                /\ stack' = [stack EXCEPT ![t] = Pop(t)]
                /\ pc' = [pc EXCEPT ![t] = f.ret]
           ELSE /\ pc' = [pc EXCEPT ![t] = "put_down_write"]
                /\ UNCHANGED <<refcount, stack>>
    /\ UNCHANGED <<allocated, values_head, subordinates_head, source_dentry,
                   held, revoked, mem, last, rwsem, call, acc, result, ops>>

\* kref_put_rwsem: down_write before the last decrement
PutDownWrite(t) ==
    /\ pc[t] = "put_down_write"
    /\ CanDownWrite(Top(t).src)
    /\ rwsem' = down_write(t, Top(t).src)
    /\ pc' = [pc EXCEPT ![t] = "put_dec_and_test"]
    /\ UNCHANGED <<heapVars, held, revoked, mem, last, call, stack, acc, result, ops>>

\* kref_put_rwsem: the decrement; release runs when it reaches zero
PutDecAndTest(t) ==
    /\ pc[t] = "put_dec_and_test"
    /\ LET f == Top(t)
       IN  /\ refcount' = [refcount EXCEPT ![f.src] = @ - 1]
           /\ IF refcount[f.src] = 1
              THEN /\ pc' = [pc EXCEPT ![t] = "destroy_values"]
                   /\ UNCHANGED <<rwsem, stack>>
              ELSE /\ rwsem' = up_write(t, f.src)
                   /\ stack' = [stack EXCEPT ![t] = Pop(t)]
                   /\ pc' = [pc EXCEPT ![t] = f.ret]
    /\ UNCHANGED <<allocated, values_head, subordinates_head, source_dentry,
                   held, revoked, mem, last, call, acc, result, ops>>

\* statsfs_source_destroy: kfree of every value group
DestroyValues(t) ==
    /\ pc[t] = "destroy_values"
    /\ values_head' = [values_head EXCEPT ![Top(t).src] = <<>>]
    /\ pc' = [pc EXCEPT ![t] = "destroy_subs"]
    /\ UNCHANGED <<allocated, refcount, subordinates_head, source_dentry, held,
                   revoked, mem, last, rwsem, call, stack, acc, result, ops>>

\* (mutant) the subordinate is unlinked and its files removed, with no put
DestroySubs_no_put(t) ==
    /\ pc[t] = "destroy_subs"
    /\ LET f == Top(t)
       IN  IF subordinates_head[f.src] # <<>>
           THEN /\ subordinates_head' =
                       [subordinates_head EXCEPT ![f.src] = Tail(@)]
                /\ stack' = [stack EXCEPT ![t] =
                       Append(stack[t],
                              Frame("rmfiles", Head(subordinates_head[f.src]),
                                    0, 1, "destroy_subs"))]
                /\ pc' = [pc EXCEPT ![t] = "rmfiles_lock"]
                /\ UNCHANGED <<source_dentry, rwsem>>
           ELSE /\ source_dentry' = [source_dentry EXCEPT ![f.src] = FALSE]
                /\ rwsem' = up_write(t, f.src)
                /\ pc' = [pc EXCEPT ![t] = "destroy_free"]
                /\ UNCHANGED <<subordinates_head, stack>>
    /\ UNCHANGED <<allocated, refcount, values_head, held, revoked, mem, last,
                   call, acc, result, ops>>

\* statsfs_source_destroy: the next subordinate is unlinked, its files are
\* removed and it is put; with none left, the source's own files go and the
\* lock is released
DestroySubs(t) ==
    /\ pc[t] = "destroy_subs"
    /\ LET f == Top(t)
       IN  IF subordinates_head[f.src] # <<>>
           THEN /\ subordinates_head' =
                       [subordinates_head EXCEPT ![f.src] = Tail(@)]
                /\ stack' = [stack EXCEPT ![t] =
                       stack[t] \o RemoveFrames(Head(subordinates_head[f.src]),
                                                "destroy_subs")]
                /\ pc' = [pc EXCEPT ![t] = "rmfiles_lock"]
                /\ UNCHANGED <<source_dentry, rwsem>>
           ELSE /\ source_dentry' = [source_dentry EXCEPT ![f.src] = FALSE]
                /\ rwsem' = up_write(t, f.src)
                /\ pc' = [pc EXCEPT ![t] = "destroy_free"]
                /\ UNCHANGED <<subordinates_head, stack>>
    /\ UNCHANGED <<allocated, refcount, values_head, held, revoked, mem, last,
                   call, acc, result, ops>>

\* statsfs_source_destroy: kfree(source->name), kfree(source)
DestroyFree(t) ==
    /\ pc[t] = "destroy_free"
    /\ allocated' = [allocated EXCEPT ![Top(t).src] = "freed"]
    /\ stack' = [stack EXCEPT ![t] = Pop(t)]
    /\ pc' = [pc EXCEPT ![t] = Top(t).ret]
    /\ UNCHANGED <<refcount, values_head, subordinates_head, source_dentry,
                   held, revoked, mem, last, rwsem, call, acc, result, ops>>

\* the return of a call that ends with a put
ThreadReturn(t) ==
    /\ pc[t] = "return"
    /\ Leave(t, 0, U64Zero)
    /\ UNCHANGED <<heapVars, held, revoked, mem, last, rwsem, stack, acc, ops>>

(***************************************************************************)
(* The files: open and release                                             *)
(***************************************************************************)
\* the inodes of the files of source are there: its handles are torn down
\* before its memory is freed
FileExists(source) == source_dentry[source]

\* (mutant) the open takes its reference with kref_get
OpenGet_plain_get(t, source) ==
    /\ pc[t] = "idle"
    /\ t # Caller
    /\ FileExists(source)
    /\ held[t][source] < MaxHeld
    /\ refcount' = [refcount EXCEPT ![source] = @ + 1]
    /\ call' = [call EXCEPT ![t] =
                   Call("open", source, NoSource, NULL_VALUE, NULL, NULL_NAME)]
    /\ pc' = [pc EXCEPT ![t] = "open_attr"]
    /\ UNCHANGED <<allocated, values_head, subordinates_head, source_dentry,
                   held, revoked, mem, last, rwsem, stack, acc, result, ops>>

\* statsfs_attr_data_open, called by a consumer on a file of source:
\* kref_get_unless_zero, and -ENOENT when the count is zero
OpenGet(t, source) ==
    /\ pc[t] = "idle"
    /\ t # Caller
    /\ FileExists(source)
    /\ held[t][source] < MaxHeld
    /\ IF refcount[source] = 0
       THEN /\ result' = [result EXCEPT ![t] =
                   Result("open", source, NULL_VALUE, -ENOENT, U64Zero)]
            /\ UNCHANGED <<refcount, call, pc>>
       ELSE /\ refcount' = [refcount EXCEPT ![source] = @ + 1]
            /\ call' = [call EXCEPT ![t] =
                   Call("open", source, NoSource, NULL_VALUE, NULL, NULL_NAME)]
            /\ pc' = [pc EXCEPT ![t] = "open_attr"]
            /\ UNCHANGED result
    /\ UNCHANGED <<allocated, values_head, subordinates_head, source_dentry,
                   held, revoked, mem, last, rwsem, stack, acc, ops>>

\* (mutant) a failed simple_attr_open returns -ENOMEM with the reference kept
OpenAttr_no_put(t) ==
    /\ pc[t] = "open_attr"
    /\ \/ /\ held' = [held EXCEPT ![t][call[t].src] = @ + 1]
          /\ Leave(t, 0, U64Zero)
       \/ /\ Leave(t, -ENOMEM, U64Zero)
          /\ UNCHANGED held
    /\ UNCHANGED <<heapVars, revoked, mem, last, rwsem, stack, acc, ops>>

\* simple_attr_open: it succeeds and the file keeps the reference, or it
\* fails and the open gives the reference back with statsfs_source_put
OpenAttr(t) ==
    /\ pc[t] = "open_attr"
    /\ \/ /\ held' = [held EXCEPT ![t][call[t].src] = @ + 1]
          /\ Leave(t, 0, U64Zero)
          /\ UNCHANGED stack
       \/ /\ stack' = [stack EXCEPT ![t] =
                 <<Frame("put", call[t].src, 0, 0, "open_nomem")>>]
          /\ pc' = [pc EXCEPT ![t] = "put_dec_not_one"]
          /\ UNCHANGED <<held, call, result>>
    /\ UNCHANGED <<heapVars, revoked, mem, last, rwsem, acc, ops>>

\* ... and the return of -ENOMEM after that put
OpenNomem(t) ==
    /\ pc[t] = "open_nomem"
    /\ Leave(t, -ENOMEM, U64Zero)
    /\ UNCHANGED <<heapVars, held, revoked, mem, last, rwsem, stack, acc, ops>>

\* statsfs_attr_release of a file the consumer has open: simple_attr_release
\* and statsfs_source_put
StartRelease(t, source) ==
    /\ pc[t] = "idle"
    /\ t # Caller
    /\ held[t][source] > 0
    /\ held' = [held EXCEPT ![t][source] = @ - 1]
    /\ stack' = [stack EXCEPT ![t] = <<Frame("put", source, 0, 0, "return")>>]
    /\ call' = [call EXCEPT ![t] =
                   Call("release", source, NoSource, NULL_VALUE, NULL, NULL_NAME)]
    /\ pc' = [pc EXCEPT ![t] = "put_dec_not_one"]
    /\ UNCHANGED <<heapVars, revoked, mem, last, rwsem, acc, result, ops>>

(***************************************************************************)
(* The sequential specification: API calls, one at a time                  *)
(***************************************************************************)
\* the bytes of a backing struct holding u64 a at 0, s32 b at 8 (as its
\* two's-complement bytes b0..b3) and bool c at 12
Struct(a, b, c) ==
    [o \in Offsets |->
        IF o < 8 THEN a[o + 1]
        ELSE IF o < 12 THEN b[o - 7]
        ELSE IF o = 12 THEN c ELSE 0]

\* producer data: 10 and -5 in the first struct, 32 and 3 in the second
InitMem ==
    [b \in Bases |->
        IF b = 1 THEN Struct(<<10, 0, 0, 0, 0, 0, 0, 0>>, <<251, 255, 255, 255>>, 1)
        ELSE Struct(<<32, 0, 0, 0, 0, 0, 0, 0>>, <<3, 0, 0, 0>>, 0)]

vars == <<allocated, refcount, values_head, subordinates_head, source_dentry,
          held, revoked, mem, last, rwsem, pc, call, stack, acc, result, ops>>

\* every source created by its producer, which holds the reference
\* statsfs_source_create returned
Init ==
    /\ allocated = [s \in Sources |-> "live"]
    /\ refcount = [s \in Sources |-> 1]
    /\ values_head = [s \in Sources |-> <<>>]
    /\ subordinates_head = [s \in Sources |-> <<>>]
    /\ source_dentry = [s \in Sources |-> FALSE]
    /\ held = [t \in Threads |-> [s \in Sources |->
                                    IF t = Caller THEN 1 ELSE 0]]
    /\ revoked = {}
    /\ mem = InitMem
    /\ last = NoCall
    /\ ThreadsIdle

\* what the producers attach: table D over either struct or as a placeholder,
\* table E over the first struct or as a placeholder
Attachments ==
    {p \in Arrays \X (Bases \cup {NULL}) : p[1] = "E" => p[2] \in {NULL, 1}}

\* building the tree, revoking, and querying it
Next ==
    \/ \E s \in Sources, p \in Attachments : AddValues(s, p[1], p[2])
    \/ \E s, c \in Sources : AddSubordinate(s, c)
    \/ \E s, c \in Sources : RemoveSubordinate(s, c)
    \/ \E s \in Sources : Revoke(s)
    \/ \E s \in Sources, d \in Descriptors \cup {NULL_VALUE} : GetValue(s, d)
    \/ Return

Spec == Init /\ [][Next]_vars

(***************************************************************************)
(* The concurrent specification: threads calling the API at the same time  *)
(***************************************************************************)
\* source 1 aggregates table D over its subordinate 2, which exports struct 1;
\* the other sources are not linked yet. Thread 1 created the sources; every
\* other thread took a reference to source 1.
ConcInit ==
    /\ allocated = [s \in Sources |-> "live"]
    /\ values_head = [s \in Sources |->
            IF s = 1 THEN <<[base_addr |-> NULL, values |-> "D",
                             files_created |-> FALSE]>>
            ELSE IF s = 2 THEN <<[base_addr |-> 1, values |-> "D",
                                  files_created |-> FALSE]>>
            ELSE <<>>]
    /\ subordinates_head = [s \in Sources |-> IF s = 1 THEN <<2>> ELSE <<>>]
    /\ source_dentry = [s \in Sources |-> FALSE]
    /\ held = [t \in Threads |-> [s \in Sources |->
                  IF t = 1 \/ s = 1 THEN 1 ELSE 0]]
    /\ refcount = [s \in Sources |->
                     IF s = 1 THEN NumThreads ELSE IF s = 2 THEN 2 ELSE 1]
    /\ revoked = {}
    /\ mem = InitMem
    /\ last = NoCall
    /\ ThreadsIdle

\* what the threads ask for
ReadCalls ==
    {<<"get_value", <<"D", 1>>, NULL_NAME>>,
     <<"get_value_by_name", NULL_VALUE, "n">>,
     <<"clear", <<"D", 1>>, NULL_NAME>>}

ThreadStart(t) ==
    \/ \E s \in Sources, r \in ReadCalls : StartRead(t, r[1], s, r[2], r[3])
    \/ \E s \in Sources : StartAddValues(t, s, "D", NumBases)
    \/ \E s, c \in Sources : StartAddSubordinate(t, s, c)
    \/ \E s, c \in Sources : StartRemoveSubordinate(t, s, c)
    \/ \E s \in Sources : StartRevoke(t, s)
    \/ \E s \in Sources : ThreadGet(t, s)
    \/ \E s \in Sources : StartPut(t, s)

ThreadStep(t) ==
    \/ RdLock(t) \/ RdSearch(t) \/ RdSimple(t)
    \/ WalkGroup(t) \/ WalkReadGroup(t) \/ WalkDescend(t) \/ WalkAscend(t)
    \/ WalkFinish(t) \/ RdUnlock(t)
    \/ AvLock(t) \/ AvBody(t)
    \/ AsLock(t) \/ AsBody(t)
    \/ RsLock(t) \/ RsSearch(t) \/ RsUnlock(t)
    \/ RmfilesLock(t) \/ RmfilesBody(t)
    \/ RvLock(t) \/ RvBody(t)
    \/ PutDecNotOne(t) \/ PutDownWrite(t) \/ PutDecAndTest(t)
    \/ DestroyValues(t) \/ DestroySubs(t) \/ DestroyFree(t)
    \/ ThreadReturn(t)

ConcNext == \E t \in Threads : ThreadStart(t) \/ ThreadStep(t)

SpecConc == ConcInit /\ [][ConcNext]_vars

(***************************************************************************)
(* The fair specification: each thread's last call, scheduled fairly       *)
(***************************************************************************)
\* source 1 aggregates table D over its subordinate 2; source 3 is either
\* the subordinate of 2 (and exports struct 2) or not linked yet. Either
\* thread 1 produced the sources and still holds them all, or it kept source
\* 1 only and thread 2 holds the leaf, source 3. Every thread holds source 1
\* and has one call left to make.
FairInit ==
    \E linked, producer \in BOOLEAN :
        LET parented(s) == s = 2 \/ (s = 3 /\ linked)
            h(t, s) == IF s = 1 THEN 1
                       ELSE IF t = 1
                       THEN (IF producer \/ ~parented(s) THEN 1 ELSE 0)
                       ELSE IF t = 2 /\ s = 3 /\ ~producer THEN 1 ELSE 0
        IN  /\ allocated = [s \in Sources |-> "live"]
            /\ values_head = [s \in Sources |->
                    IF s = 1 THEN <<[base_addr |-> NULL, values |-> "D",
                                     files_created |-> FALSE]>>
                    ELSE IF s = 2 THEN <<[base_addr |-> 1, values |-> "D",
                                          files_created |-> FALSE]>>
                    ELSE IF s = 3 /\ linked
                    THEN <<[base_addr |-> 2, values |-> "D",
                            files_created |-> FALSE]>>
                    ELSE <<>>]
            /\ subordinates_head = [s \in Sources |->
                    IF s = 1 THEN <<2>>
                    ELSE IF s = 2 /\ linked THEN <<3>> ELSE <<>>]
            /\ source_dentry = [s \in Sources |-> FALSE]
            /\ held = [t \in Threads |-> [s \in Sources |-> h(t, s)]]
            /\ refcount = [s \in Sources |->
                    Cardinality({t \in Threads : h(t, s) = 1})
                    + (IF parented(s) THEN 1 ELSE 0)]
            /\ revoked = {}
            /\ mem = InitMem
            /\ last = NoCall
            /\ ThreadsAtRest
            /\ ops = [t \in Threads |-> Budget(t) - 1]

\* the scheduler runs every thread that can take a step: a thread that is
\* inside a call and not waiting for a rwsem goes on
SpecFair ==
    FairInit /\ [][ConcNext]_vars /\ \A t \in Threads : WF_vars(ThreadStep(t))

(***************************************************************************)
(* The open specification: consumers opening files against the last puts   *)
(***************************************************************************)
\* source 3 under source 2 under source 1, all registered with their files
\* created; the producer (thread 1) has put its references to 2 and 3 and
\* holds source 1 and the sources not linked; no file is open
OpenInit ==
    /\ allocated = [s \in Sources |-> "live"]
    /\ values_head = [s \in Sources |->
            IF s = 1 THEN <<[base_addr |-> NULL, values |-> "D",
                             files_created |-> TRUE]>>
            ELSE IF s \in {2, 3}
            THEN <<[base_addr |-> s - 1, values |-> "D",
                    files_created |-> TRUE]>>
            ELSE <<>>]
    /\ subordinates_head = [s \in Sources |->
            IF s \in {1, 2} THEN <<s + 1>> ELSE <<>>]
    /\ source_dentry = [s \in Sources |-> s <= 3]
    /\ held = [t \in Threads |-> [s \in Sources |->
                  IF t = Caller /\ s \notin {2, 3} THEN 1 ELSE 0]]
    /\ refcount = [s \in Sources |-> 1]
    /\ revoked = {}
    /\ mem = InitMem
    /\ last = NoCall
    /\ ThreadsIdle

\* the producer removes subordinates and puts its sources while the
\* consumers open and release files
OpenNext ==
    \/ \E s, c \in Sources : StartRemoveSubordinate(Caller, s, c)
    \/ \E s \in Sources : StartPut(Caller, s)
    \/ \E t \in Threads :
          \/ \E s \in Sources : OpenGet(t, s)
          \/ \E s \in Sources : StartRelease(t, s)
          \/ OpenAttr(t) \/ OpenNomem(t)
          \/ RsLock(t) \/ RsSearch(t) \/ RsUnlock(t)
          \/ RmfilesLock(t) \/ RmfilesBody(t)
          \/ PutDecNotOne(t) \/ PutDownWrite(t) \/ PutDecAndTest(t)
          \/ DestroyValues(t) \/ DestroySubs(t) \/ DestroyFree(t)
          \/ ThreadReturn(t)

SpecOpen == OpenInit /\ [][OpenNext]_vars

(***************************************************************************)
(* The consumer's calls on trees the producer has built                    *)
(***************************************************************************)
\* the names a consumer can ask for: those of the arrays and one of no array
Names == {Deref(d).name : d \in Descriptors} \cup {"absent"}

\* what the producers attach: array D as a placeholder and on each backing
\* struct, array E on the first backing struct
QueryAttachments == {p \in Attachments : p[1] = "E" => p[2] = 1}

\* the backing structs hold what the producers wrote last
Untouched == mem = InitMem

\* the producer builds the tree and the consumer reads it; once a clear has
\* changed a backing struct the consumer reads the cleared value back
QueryNext ==
    \/ \E s \in Sources, p \in QueryAttachments :
          Untouched /\ AddValues(s, p[1], p[2])
    \/ \E s, c \in Sources : Untouched /\ AddSubordinate(s, c)
    \/ \E s \in Sources, d \in Descriptors \cup {NULL_VALUE} :
          Untouched /\ GetValue(s, d)
    \/ \E s \in Sources, n \in Names : Untouched /\ GetValueByName(s, n)
    \/ \E s \in Sources, d \in Descriptors \cup {NULL_VALUE} :
          Untouched /\ Clear(s, d)
    \/ ReadBack
    \/ Return

SpecQuery == Init /\ [][QueryNext]_vars

(***************************************************************************)
(* Creation and attachment when the allocator can fail                     *)
(***************************************************************************)
\* no source created yet
BootInit ==
    /\ allocated = [s \in Sources |-> "none"]
    /\ refcount = [s \in Sources |-> 0]
    /\ values_head = [s \in Sources |-> <<>>]
    /\ subordinates_head = [s \in Sources |-> <<>>]
    /\ source_dentry = [s \in Sources |-> FALSE]
    /\ held = [t \in Threads |-> [s \in Sources |-> 0]]
    /\ revoked = {}
    /\ mem = InitMem
    /\ last = NoCall
    /\ ThreadsIdle

\* a store through ERR_PTR(-ENOMEM) has happened
Faulted ==
    \/ last.op = "oops"
    \/ \E s \in Sources : \E i \in 1..Len(values_head[s]) :
          values_head[s][i] = ERR_PTR_ENOMEM

AllocNext ==
    \/ \E s \in Sources : ~Faulted /\ Create(s)
    \/ \E s \in Sources : ~Faulted /\ CreateNoMem(s)
    \/ \E s \in Sources, p \in Attachments :
          ~Faulted /\ AddValues(s, p[1], p[2])
    \/ \E s \in Sources, p \in Attachments :
          ~Faulted /\ AddValuesNoMem(s, p[1], p[2])
    \/ ~Faulted /\ Return

SpecAlloc == BootInit /\ [][AllocNext]_vars

(***************************************************************************)
(* Reference definitions for the properties                                *)
(***************************************************************************)
\* source and its descendants
RECURSIVE Subtree(_)
Subtree(source) ==
    {source} \cup UNION {Subtree(subordinates_head[source][i]) :
                            i \in 1..Len(subordinates_head[source])}

\* the value groups <<source, position>> of the subtree that belong to
\* array arr and have a backing struct
LiveLeaves(S, arr) ==
    {g \in S \X (1..MaxGroups) :
        /\ g[2] <= Len(values_head[g[1]])
        /\ values_head[g[1]][g[2]].values = arr
        /\ values_head[g[1]][g[2]].base_addr # NULL}

Reading(g, val) == get_simple_value(mem, values_head[g[1]][g[2]], val)

\* the sum modulo 2^64 of the readings of val over the groups G, each once
RECURSIVE SumOfReadings(_, _)
SumOfReadings(G, val) ==
    IF G = {} THEN U64Zero
    ELSE LET g == CHOOSE x \in G : TRUE
         IN  U64Add(Reading(g, val), SumOfReadings(G \ {g}, val))

\* the positions in source's value list of the groups of array arr
GroupsOf(source, arr) ==
    {i \in 1..Len(values_head[source]) : values_head[source][i].values = arr}

\* source carries a placeholder group for array arr
CarriesPlaceholder(source, arr) ==
    \E i \in GroupsOf(source, arr) : values_head[source][i].base_addr = NULL

\* the group of array arr nearest the head of source's list is a placeholder
PlaceholderFirst(source, arr) ==
    /\ GroupsOf(source, arr) # {}
    /\ \E i \in GroupsOf(source, arr) :
          /\ values_head[source][i].base_addr = NULL
          /\ \A j \in GroupsOf(source, arr) : i <= j

\* get_value(source, val) has just returned
Returned(op) == last.op = op

SumDescriptors == {d \in Descriptors : Deref(d).aggr_kind = STATSFS_SUM}

\* the query that has just returned asked for a Sum descriptor
SumQuery ==
    /\ Returned("get_value")
    /\ last.arg \in SumDescriptors

AggregateKinds ==
    {STATSFS_SUM, STATSFS_MIN, STATSFS_MAX, STATSFS_COUNT_ZERO, STATSFS_AVG}

\* the query that has just returned asked source last.src for an aggregate:
\* the reference group of descriptor last.arg is a placeholder
AggregateQuery ==
    /\ Returned("get_value")
    /\ last.arg \in Descriptors
    /\ PlaceholderFirst(last.src, last.arg[1])

(***************************************************************************)
(* C2, as stated: an aggregate get_value over a subtree without any live   *)
(* matching leaf returns success and 0, for each of Sum, Min, Max,         *)
(* CountZero and Avg, unsigned and signed.                                 *)
(***************************************************************************)
C2_EmptyAggregateIsZero ==
    (/\ AggregateQuery
     /\ Deref(last.arg).aggr_kind \in AggregateKinds
     /\ LiveLeaves(Subtree(last.src), last.arg[1]) = {}) =>
        /\ last.ret = 0
        /\ last.val = U64Zero

(***************************************************************************)
(* C4, as stated: once source s is revoked it stays alive and get_value(s, *)
(* d), for every descriptor d of an array attached to s, returns success   *)
(* and 0, whatever its subordinates hold.                                  *)
(***************************************************************************)
C4_RevokedReadsZero ==
    (/\ Returned("get_value")
     /\ last.src \in revoked
     /\ GroupsOf(last.src, last.arg[1]) # {}) =>
        /\ allocated[last.src] = "live"
        /\ last.ret = 0
        /\ last.val = U64Zero

\* the aggregate of the readings of val over the groups G, by val's kind
RefAggregate(G, val) ==
    LET signed == Deref(val).type >= STATSFS_SIGN
        kind == Deref(val).aggr_kind
        Less(a, b) == IF signed THEN S64Less(a, b) ELSE U64Less(a, b)
        n == Cardinality(G)
    IN  CASE kind = STATSFS_SUM -> SumOfReadings(G, val)
          [] kind = STATSFS_COUNT_ZERO ->
                U64Of(Cardinality({g \in G : Reading(g, val) = U64Zero}))
          [] kind = STATSFS_MIN ->
                IF G = {} THEN (IF signed THEN S64_MAX ELSE U64_MAX)
                ELSE Reading(CHOOSE g \in G : \A o \in G :
                                ~Less(Reading(o, val), Reading(g, val)), val)
          [] kind = STATSFS_MAX ->
                IF G = {} THEN (IF signed THEN S64_MIN ELSE U64Zero)
                ELSE Reading(CHOOSE g \in G : \A o \in G :
                                ~Less(Reading(g, val), Reading(o, val)), val)
          [] kind = STATSFS_AVG ->
                IF G = {} THEN U64Zero
                ELSE IF signed THEN S64DivSmall(SumOfReadings(G, val), n)
                ELSE U64DivSmall(SumOfReadings(G, val), n)
          [] OTHER -> U64Zero

GroupsOver(source, arr, ptr) ==
    {i \in GroupsOf(source, arr) : values_head[source][i].base_addr = ptr}

\* a second add_values with the arguments of the successful call before it
RepeatedAddValues ==
    /\ last.op = "add_values" /\ last.ret = 0
    /\ last'.op = "add_values"
    /\ last'.src = last.src /\ last'.arg = last.arg

(***************************************************************************)
(* C10: add_values(s, D, b) right after a successful add_values(s, D, b)   *)
(* returns -EEXIST and changes nothing; s then holds exactly one group for *)
(* (D, b), and get_value on a Sum descriptor of D returns the single       *)
(* reading of b's field.                                                   *)
(***************************************************************************)
C10_DuplicateRejected ==
    [][RepeatedAddValues =>
        /\ last'.ret = -EEXIST
        /\ heap' = heap /\ mem' = mem
        /\ Cardinality(GroupsOver(last.src, last.arg[1], last.arg[2])') = 1
        /\ last.arg[2] # NULL =>
              \A d \in SumDescriptors : d[1] = last.arg[1] =>
                  statsfs_source_get_value_locked(heap', mem', last.src, d) =
                      [ret |-> 0,
                       val |-> get_simple_value(mem,
                                   [base_addr |-> last.arg[2],
                                    values |-> last.arg[1],
                                    files_created |-> FALSE], d)]
    ]_vars

\* a duplicate add_values on a source holding the one group (D, struct 1)
\* has been rejected
C10_Witness ==
    /\ last.op = "add_values" /\ last.ret = -EEXIST
    /\ last.src = 1 /\ last.arg = <<"D", 1>>
    /\ values_head[1] = <<[base_addr |-> 1, values |-> "D",
                           files_created |-> FALSE]>>

(***************************************************************************)
(* Reference definitions for the concurrent properties                     *)
(***************************************************************************)
Frames(t) == {stack[t][k] : k \in 1..Len(stack[t])}

\* thread t is walking source: between down_read and up_read of a read call
WalkerIn(t, source) ==
    \/ call[t].op \in ReadOps /\ call[t].src = source
          /\ pc[t] \in {"rd_search", "rd_simple", "walk", "walk_read", "rd_unlock"}
    \/ \E f \in Frames(t) : f.kind = "walk" /\ f.src = source

\* thread t is about to access the backing struct of a group of source
Dereferencing(t, source) ==
    /\ pc[t] \in {"rd_simple", "walk_read"}
    /\ Top(t).src = source

\* thread t is destroying source: past the decrement that reached zero
Destroying(t, source) ==
    \E k \in 1..Len(stack[t]) :
        /\ stack[t][k].kind = "put" /\ stack[t][k].src = source
        /\ IF k = Len(stack[t])
           THEN pc[t] \in {"destroy_values", "destroy_subs", "destroy_free"}
           ELSE stack[t][k + 1].kind = "put"

\* thread t is inside a section of code that changes source: between the
\* down_write and the up_write of a mutator, or destroying it
Writing(t, source) ==
    \/ call[t].src = source
          /\ pc[t] \in {"av_body", "as_body", "rv_body", "rs_search", "rs_unlock"}
    \/ call[t].src = source /\ call[t].op = "remove_subordinate"
          /\ stack[t] # <<>>
    \/ Destroying(t, source) /\ ~(pc[t] = "destroy_free" /\ Top(t).src = source)
    \/ \E k \in 1..Len(stack[t]) :
          /\ stack[t][k].kind = "rmfiles" /\ stack[t][k].src = source
          /\ k < Len(stack[t]) \/ pc[t] = "rmfiles_body"
    \/ pc[t] = "put_dec_and_test" /\ Top(t).src = source

(***************************************************************************)
(* C3: once revoke(s) has returned (and until values are attached to s     *)
(* again) no thread running get_value, get_value_by_name or clear is at an *)
(* access to the backing struct of a group of s.                           *)
(***************************************************************************)
C3_NoAccessAfterRevoke ==
    \A t \in Threads : \A s \in revoked : ~Dereferencing(t, s)

\* a walk from source 1 read the struct of source 2 before revoke(2) got the
\* write lock, and is still running now that revoke(2) has returned
C3_Witness ==
    /\ 2 \in revoked
    /\ \E t \in Threads :
          /\ pc[t] = "walk" /\ call[t].src = 1 /\ Top(t).src = 1
          /\ acc[t].agg.count = 1

(***************************************************************************)
(* C6: a source is destroyed by one thread, which holds its write lock     *)
(* while it tears it down, and only with its reference count at zero: a    *)
(* source that is freed is not freed again, and no source is freed while a *)
(* thread holds a reference to it or a live source links it.               *)
(***************************************************************************)
C6_DestroyedOnceAtZero ==
    /\ \A t \in Threads : \A s \in Sources :
          Destroying(t, s) =>
              /\ refcount[s] = 0
              /\ allocated[s] = "live"
              /\ Writing(t, s) => rwsem[s].writer = t
              /\ \A u \in Threads \ {t} : ~Destroying(u, s)
    /\ \A s \in Sources :
          allocated[s] = "freed" =>
              /\ refcount[s] = 0
              /\ \A t \in Threads : held[t][s] = 0
              /\ \A p \in Sources : allocated[p] = "live" =>
                    \A i \in 1..Len(subordinates_head[p]) :
                        subordinates_head[p][i] # s

\* the last put of source 1 has destroyed it and, through it, source 2
C6_Witness ==
    /\ allocated[1] = "freed"
    /\ allocated[2] = "freed"
    /\ \A t \in Threads : pc[t] = "idle"

(***************************************************************************)
(* C8: while a thread walks a source (get_value, get_value_by_name or      *)
(* clear, at the root or in a subordinate), the source is not freed, no    *)
(* other thread is inside code that changes its lists or frees its value   *)
(* groups, and the group the walker is about to read is still in the list. *)
(***************************************************************************)
C8_WalkersSafe ==
    \A t \in Threads : \A s \in Sources :
        WalkerIn(t, s) =>
            /\ allocated[s] = "live"
            /\ \A u \in Threads \ {t} : ~Writing(u, s)
            /\ Dereferencing(t, s) => Top(t).g <= Len(values_head[s])

\* a walker is inside subordinate 2 while add_values(2) waits for its rwsem
C8_Witness ==
    \E t, u \in Threads :
        /\ t # u
        /\ \E f \in Frames(t) : f.kind = "walk" /\ f.src = 2
        /\ call[t].src = 1
        /\ pc[u] = "av_lock" /\ call[u].src = 2

RECURSIVE SumHeld(_, _)
SumHeld(source, T) ==
    IF T = {} THEN 0
    ELSE LET t == CHOOSE u \in T : TRUE
         IN  held[t][source] + SumHeld(source, T \ {t})

\* thread t is inside a put of source that has not done its decrement yet
PendingPut(t, source) ==
    /\ \E f \in Frames(t) : f.kind = "put" /\ f.src = source
    /\ ~Destroying(t, source)

\* thread t has taken its reference in open and is in simple_attr_open
Opening(t, source) == pc[t] = "open_attr" /\ call[t].src = source

\* the references to source there are: those the threads hold (the producer's
\* and the open files), that of the list of its parent, those of the opens
\* and of the puts under way
Owners(source) ==
    SumHeld(source, Threads)
    + Cardinality({p \in Sources :
          /\ allocated[p] = "live"
          /\ \E i \in 1..Len(subordinates_head[p]) :
                subordinates_head[p][i] = source})
    + Cardinality({t \in Threads : Opening(t, source)})
    + Cardinality({t \in Threads : PendingPut(t, source)})

\* an open file, or an open past kref_get_unless_zero, is on a source that is
\* not freed and whose destruction has not started
OpenHolderSafe ==
    \A t \in Threads \ {Caller} : \A s \in Sources :
        (held[t][s] > 0 \/ Opening(t, s)) =>
            /\ allocated[s] = "live"
            /\ refcount[s] > 0
            /\ \A u \in Threads : ~Destroying(u, s)

\* the decrement that can reach zero is done with the write lock held
FinalPutLocked ==
    \A t \in Threads :
        pc[t] = "put_dec_and_test" => rwsem[Top(t).src].writer = t

\* the count of a source is the number of its references: an open that
\* returned took none, unless it succeeded
RefAccounted ==
    \A s \in Sources :
        refcount[s] = IF allocated[s] = "live" THEN Owners(s) ELSE 0

OpenResults(rets) ==
    \A t \in Threads : result[t].op = "open" => result[t].ret \in rets

(***************************************************************************)
(* C7: an open racing with the last put of its source fails with -ENOENT   *)
(* and no reference taken, or fails with -ENOMEM after it took a reference *)
(* and put it back, or succeeds, and then the source is not destroyed      *)
(* before the release; the decrement to zero is done under the write lock. *)
(***************************************************************************)
C7_OpenRacesSafely ==
    /\ OpenResults({0, -ENOENT, -ENOMEM})
    /\ OpenHolderSafe
    /\ RefAccounted
    /\ FinalPutLocked

\* C7 as stated: ... with exactly two outcomes, -ENOENT or success
C7_Original ==
    /\ OpenResults({0, -ENOENT})
    /\ OpenHolderSafe
    /\ RefAccounted
    /\ FinalPutLocked

\* the consumer has a file of source 2 open, and its open of a file of
\* source 1 has failed with -ENOENT: the producer is destroying source 1
C7_Witness ==
    /\ held[2][2] = 1
    /\ result[2] = Result("open", 1, NULL_VALUE, -ENOENT, U64Zero)
    /\ Destroying(Caller, 1)

(***************************************************************************)
(* Uniqueness of the value groups of a source                              *)
(***************************************************************************)
\* the groups at positions i and j of source carry the same
\* (base, descriptors) pair
SamePair(source, i, j) ==
    /\ values_head[source][i].base_addr = values_head[source][j].base_addr
    /\ values_head[source][i].values = values_head[source][j].values

DuplicateGroups(source) ==
    {p \in (1..Len(values_head[source])) \X (1..Len(values_head[source])) :
        p[1] < p[2] /\ SamePair(source, p[1], p[2])}

\* C11, as stated: in every reachable state no source holds two value
\* groups with the same (base, descriptors) pair.
C11_Original == \A s \in Sources : DuplicateGroups(s) = {}

\* C11, amended: two value groups of one source carry the same
\* (base, descriptors) pair only when that base is null, the state revoke
\* leaves them in; the groups with a backing struct are pairwise distinct.
C11_NoDuplicateLiveGroups ==
    \A s \in Sources : \A p \in DuplicateGroups(s) :
        values_head[s][p[1]].base_addr = NULL

\* a source that was revoked with two groups of one array and then given
\* a new backing struct for it
C11_Witness ==
    /\ Returned("add_values") /\ last.ret = 0 /\ last.arg[2] # NULL
    /\ DuplicateGroups(last.src) # {}
    /\ values_head[last.src][1].base_addr # NULL

(***************************************************************************)
(* Descriptors and names the starting source does not carry                *)
(***************************************************************************)
\* val is an entry of an array attached to source itself
AttachedTo(source, val) ==
    val # NULL_VALUE /\ GroupsOf(source, val[1]) # {}

\* some descriptor of an array attached to source itself is called name
NameAttachedTo(source, name) ==
    \E i \in 1..Len(values_head[source]) :
        \E k \in 1..NumValues(values_head[source][i].values) :
            Table(values_head[source][i].values)[k].name = name

Parents(source) ==
    {p \in Sources : \E i \in 1..Len(subordinates_head[p]) :
                        subordinates_head[p][i] = source}

\* the backing structs with every byte changed
Inverted == [b \in Bases |-> [o \in Offsets |-> 255 - mem[b][o]]]

\* C12: get_value(s, d) and clear(s, d) with d null or in no array attached
\* to s itself, and get_value_by_name(s, n) with n carried by no descriptor
\* attached to s itself, return -ENOENT whatever the subordinates and the
\* parent of s carry; the get variants set the out-value to 0, no backing
\* field is written and the result depends on no backing field.
C12_NotFoundAtSource ==
    /\ (Returned("get_value") /\ ~AttachedTo(last.src, last.arg)) =>
            /\ last.ret = -ENOENT /\ last.val = U64Zero
            /\ statsfs_source_get_value_locked(heap, Inverted, last.src,
                                                last.arg)
                   = [ret |-> -ENOENT, val |-> U64Zero]
    /\ (Returned("clear") /\ ~AttachedTo(last.src, last.arg)) =>
            /\ last.ret = -ENOENT
            /\ Untouched
            /\ statsfs_source_clear_locked(heap, Inverted, last.src, last.arg)
                   = [ret |-> -ENOENT, mem |-> Inverted]
    /\ (Returned("get_value_by_name")
            /\ ~NameAttachedTo(last.src, last.arg[1])) =>
            /\ last.ret = -ENOENT /\ last.val = U64Zero
            /\ statsfs_source_get_value_by_name(heap, Inverted, last.src,
                                                 last.arg[1])
                   = [ret |-> -ENOENT, val |-> U64Zero]

\* a look-up that failed at a source whose parent and whose subordinate both
\* carry the descriptor on a backing struct
C12_Witness ==
    /\ Returned("get_value") /\ last.ret = -ENOENT /\ last.arg # NULL_VALUE
    /\ \E par \in Parents(last.src) : LiveLeaves({par}, last.arg[1]) # {}
    /\ LiveLeaves(Subtree(last.src) \ {last.src}, last.arg[1]) # {}

(***************************************************************************)
(* Lookup by name against lookup by descriptor                             *)
(***************************************************************************)
\* the descriptors attached to source itself that are called name
Carriers(source, name) ==
    {d \in Descriptors : AttachedTo(source, d) /\ Deref(d).name = name}

\* C13: when d is attached to s and no other descriptor attached to s has
\* d's name n, get_value_by_name(s, n) returns the status and the value of
\* get_value(s, d), for a simple and for an aggregate d alike.
C13_ByNameIsByDescriptor ==
    Returned("get_value_by_name") =>
        \A d \in Carriers(last.src, last.arg[1]) :
            Carriers(last.src, last.arg[1]) = {d} =>
                [ret |-> last.ret, val |-> last.val]
                    = statsfs_source_get_value_locked(heap, mem, last.src, d)

\* an aggregate found by its name over a subordinate's backing struct
C13_Witness ==
    /\ Returned("get_value_by_name") /\ last.ret = 0 /\ last.val # U64Zero
    /\ \E d \in Descriptors :
          /\ Carriers(last.src, last.arg[1]) = {d}
          /\ PlaceholderFirst(last.src, d[1])
          /\ LiveLeaves(Subtree(last.src) \ {last.src}, d[1]) # {}

\* a simple value found by its name: the first group of its array has a
\* backing struct
C13_WitnessSimple ==
    /\ Returned("get_value_by_name") /\ last.ret = 0 /\ last.val # U64Zero
    /\ \E d \in Descriptors :
          /\ Carriers(last.src, last.arg[1]) = {d}
          /\ ~PlaceholderFirst(last.src, d[1])

(***************************************************************************)
(* Clearing and reading back                                               *)
(***************************************************************************)
\* the unsigned descriptors that clear brings back to 0
ClearedKinds == {STATSFS_SUM, STATSFS_MIN, STATSFS_MAX, STATSFS_AVG}

Unsigned(val) == is_val_signed(val) = 0

\* get_value(s, d) directly follows a successful clear(s, d)
ClearedThenRead ==
    /\ last.op = "clear" /\ last.ret = 0
    /\ last'.op = "get_value"
    /\ last'.src = last.src /\ last'.arg = last.arg

\* C14, as stated: clear(s, d) followed by get_value(s, d) returns success
\* and 0 for every descriptor d of unsigned kind with aggregation Sum, Min,
\* Max or Avg, when d is a leaf at s and when d is an aggregate at s,
\* whatever number of live matching leaves the subtree of s has.
C14_ClearThenReadIsZero ==
    [][(/\ ClearedThenRead
        /\ Unsigned(last.arg)
        /\ Deref(last.arg).aggr_kind \in ClearedKinds) =>
            (last'.ret = 0 /\ last'.val = U64Zero)]_vars

\* the same without the Min over a subtree that has no live matching leaf
C14_ExceptEmptyMin ==
    [][(/\ ClearedThenRead
        /\ Unsigned(last.arg)
        /\ Deref(last.arg).aggr_kind \in ClearedKinds
        /\ ~(/\ Deref(last.arg).aggr_kind = STATSFS_MIN
              /\ PlaceholderFirst(last.src, last.arg[1])
              /\ LiveLeaves(Subtree(last.src), last.arg[1]) = {})) =>
            (last'.ret = 0 /\ last'.val = U64Zero)]_vars

(***************************************************************************)
(* Allocation failure                                                      *)
(***************************************************************************)
CreateFails == \E s \in Sources : CreateNoMem(s)

AddValuesFails ==
    \E s \in Sources, p \in Attachments : AddValuesNoMem(s, p[1], p[2])

LiveSources == {s \in Sources : allocated[s] = "live"}

\* C15, as stated: an allocation failure during create or add_values is
\* returned as -ENOMEM and leaves no partial state: a failed create leaves
\* no source allocated, a failed add_values returns an error, leaves the
\* value list as it was and stores through no invalid pointer.
C15_AllocationFailureSurfaced ==
    [][/\ CreateFails =>
            /\ last'.op = "create" /\ last'.ret = -ENOMEM
            /\ LiveSources' = LiveSources
            /\ UNCHANGED <<refcount, values_head, subordinates_head, held>>
       /\ AddValuesFails =>
            /\ last'.op = "add_values" /\ last'.ret = -ENOMEM
            /\ UNCHANGED heapVars
            /\ UNCHANGED rwsem
      ]_vars

\* the part of C15 about create: a failed create returns -ENOMEM and leaves
\* no source allocated
C15_CreateFailureClean ==
    [][CreateFails =>
            /\ last'.op = "create" /\ last'.ret = -ENOMEM
            /\ LiveSources' = LiveSources
            /\ UNCHANGED <<refcount, values_head, subordinates_head, held>>
      ]_vars

(***************************************************************************)
(* Simple values and aggregates                                            *)
(***************************************************************************)
\* the group of val's array that the lookup at source meets first
FirstGroup(source, val) ==
    values_head[source][CHOOSE i \in GroupsOf(source, val[1]) :
                            \A j \in GroupsOf(source, val[1]) : i <= j]

\* get_value(s, d) has just returned for a descriptor d attached to s
AttachedQuery ==
    /\ Returned("get_value")
    /\ AttachedTo(last.src, last.arg)

\* C16, as stated: the aggregation kind of an attached descriptor decides
\* how get_value treats it: with aggr_kind NONE the value it points to is
\* returned, and with any other aggr_kind all subordinates are searched and
\* every matching simple value of the subtree is folded into the result.
C16_KindDecides ==
    AttachedQuery =>
        /\ last.ret = 0
        /\ (/\ Deref(last.arg).aggr_kind = STATSFS_NONE
            /\ FirstGroup(last.src, last.arg).base_addr # NULL) =>
               last.val = get_simple_value(mem, FirstGroup(last.src, last.arg),
                                           last.arg)
        /\ Deref(last.arg).aggr_kind # STATSFS_NONE =>
               last.val = RefAggregate(
                   LiveLeaves(Subtree(last.src), last.arg[1]), last.arg)

\* the registry with the subordinates of source unlinked
WithoutSubordinates(source) ==
    [heap EXCEPT !.subordinates_head[source] = <<>>]

Orders(n) ==
    {f \in [1..n -> 1..n] : \A i, j \in 1..n : f[i] = f[j] => i = j}

OrdersOf(seq) ==
    {[i \in 1..Len(seq) |-> seq[f[i]]] : f \in Orders(Len(seq))}

\* the registries that hold the groups of this one on the same sources,
\* attached in any order
RECURSIVE Reorderings(_)
Reorderings(n) ==
    IF n = 0 THEN {<<>>}
    ELSE {Append(vh, o) : vh \in Reorderings(n - 1),
                          o \in OrdersOf(values_head[n])}

Reattached ==
    {[heap EXCEPT !.values_head = vh] : vh \in Reorderings(NumSources)}

HeldLocks(t) ==
    {s \in Sources : rwsem[s].writer = t \/ t \in rwsem[s].readers}

\* the calls that begin by taking the rwsem of the source they name
LockingOps ==
    ReadOps \cup {"add_values", "add_subordinate", "revoke",
                  "remove_subordinate"}

\* the sources on the way of thread t: the one its call names and those of
\* its nested frames, outermost first
LockPath(t) ==
    (IF call[t].op \in LockingOps THEN <<call[t].src>> ELSE <<>>)
        \o [k \in 1..Len(stack[t]) |-> stack[t][k].src]

\* the locks of t are those of the first sources on its way: each was taken
\* under the ones before it and is given back before them
Nested(t) ==
    \E n \in 0..Len(LockPath(t)) :
        HeldLocks(t) = {LockPath(t)[i] : i \in 1..n}

\* thread t takes the rwsem of source in this step
Acquires(t, source) ==
    /\ source \notin HeldLocks(t)
    /\ source \in HeldLocks(t)'

Linked ==
    {c \in Sources : \E par \in Parents(c) : allocated[par] = "live"}

\* the decrement of a put that thread t makes in this step
PutDecrements(t) ==
    \/ PutDecNotOne(t) /\ refcount[Top(t).src] # 1
    \/ PutDecAndTest(t)

\* C20: for every source c in the subordinates list of a parent p, p
\* accounts for exactly one reference on c: the count of c is the number of
\* its holders, the list of its parent being one of them, so it is at least
\* 1 while c is linked; add_subordinate raises the count of c by exactly 1
\* and the put that remove_subordinate makes lowers it by exactly 1.
C20_ParentHoldsOneReference ==
    /\ [](\A c \in Linked :
            /\ allocated[c] = "live"
            /\ refcount[c] = Owners(c)
            /\ refcount[c] >= 1)
    /\ [][\A t \in Threads :
            /\ AsBody(t) =>
                 refcount' = [refcount EXCEPT ![call[t].sub] = @ + 1]
            /\ PutDecrements(t) =>
                 refcount' = [refcount EXCEPT ![Top(t).src] = @ - 1]]_vars

\* a subordinate whose only reference is the one of its parent's list
C20_Witness ==
    \E c \in Linked :
        /\ refcount[c] = 1
        /\ SumHeld(c, Threads) = 0
        /\ \A t \in Threads : ~PendingPut(t, c)

(***************************************************************************)
(* The linking specification: add_subordinate as the code has it, with no  *)
(* test of the list the subordinate may already be on                      *)
(***************************************************************************)
\* the places of the subordinates lists where sub is linked
PositionsIn(lists, sub) ==
    {p \in Sources \X (1..NumSources) :
        /\ p[2] <= Len(lists[p[1]])
        /\ lists[p[1]][p[2]] = sub}

Positions(sub) == PositionsIn(subordinates_head, sub)

SingleParent == \A c \in Sources : Cardinality(Positions(c)) <= 1

\* statsfs_source_add_subordinate called on any subordinate: list_add links
\* sub->list_element behind the head of source whatever list it is on, and
\* the node is then reached from both heads
AddSubordinateAny(source, sub) ==
    /\ Holds(source) /\ Holds(sub)
    /\ source < sub
    /\ SetHeap(statsfs_source_add_subordinate(heap, source, sub))
    /\ last' = Result("add_subordinate", source, <<"", sub>>, 0, U64Zero)
    /\ UNCHANGED <<held, revoked, mem>>
    /\ UNCHANGED threadVars

\* the calls stop at the first list that is no longer a list
LinkNext ==
    \/ \E s \in Sources, p \in QueryAttachments :
            SingleParent /\ AddValues(s, p[1], p[2])
    \/ \E s, c \in Sources : SingleParent /\ AddSubordinateAny(s, c)
    \/ \E s, c \in Sources : SingleParent /\ RemoveSubordinate(s, c)
    \/ Return

SpecLink == Init /\ [][LinkNext]_vars

\* C21, as stated: after any sequence of add_subordinate and
\* remove_subordinate calls each source is in at most one subordinates list,
\* and at most once in it.
C21_Original == SingleParent

\* the step is add_subordinate on a source that is on a list already
Relinks ==
    /\ last'.op = "add_subordinate"
    /\ Positions(last'.arg[2]) # {}

\* C21, amended: add_subordinate(p, c) called while c is on no subordinates
\* list puts c once on the list of p and on no other, and no other call puts
\* a source on a list; so each source is in at most one list, at most once,
\* for as long as no caller links a source that is still linked (which
\* add_subordinate does not test).
C21_SingleParentUnlessRelinked ==
    [][(SingleParent /\ ~Relinks) =>
          /\ SingleParent'
          /\ last'.op = "add_subordinate" =>
                PositionsIn(subordinates_head', last'.arg[2])
                    = {<<last'.src, 1>>}
          /\ last'.op # "add_subordinate" =>
                \A c \in Sources :
                    PositionsIn(subordinates_head', c) \subseteq
                        {<<q[1], k>> : q \in Positions(c),
                                       k \in 1..NumSources}]_vars

\* a chain of three sources, each linked while it was on no list
C21_Witness ==
    /\ Returned("add_subordinate")
    /\ Positions(3) = {<<2, 1>>}
    /\ Positions(2) = {<<1, 1>>}
    /\ refcount[3] = 2

(***************************************************************************)
(* remove_subordinate of a source the parent does not list                 *)
(***************************************************************************)
\* C22: remove_subordinate(p, c) with c not on the subordinates list of p
\* changes nothing: the list of p and every other list, the reference count
\* of c, its directory and files, every value group and every backing struct
\* are as before the call.
C22_RemoveAbsentIsNoOp ==
    [][\A p, c \in Sources :
          (RemoveSubordinate(p, c) /\ p \notin {q[1] : q \in Positions(c)}) =>
              UNCHANGED <<allocated, refcount, values_head, subordinates_head,
                          source_dentry, held, revoked, mem>>]_vars

\* remove_subordinate has returned and both sources that can be linked are
\* still linked, with a value group on one of them: the call named a source
\* its parent did not list
C22_Witness ==
    /\ Returned("remove_subordinate")
    /\ SingleParent
    /\ Positions(2) # {} /\ Positions(3) # {}
    /\ refcount[2] = 2 /\ refcount[3] = 2
    /\ values_head[3] # <<>>

(***************************************************************************)
(* A value group that lost its base                                        *)
(***************************************************************************)
\* the k-th group attached to source: list_add puts the newer groups in front
Attached(list, k) == list[Len(list) + 1 - k]

\* C23: a value group whose base_addr is null keeps a null base_addr, and
\* its descriptor array, through every later call for as long as the group
\* is on the list of its source; a later add_values of the same array makes
\* a new group and leaves that one as it is.
C23_RevokedStaysRevoked ==
    [][\A s \in Sources : \A k \in 1..Len(values_head[s]) :
          (Attached(values_head[s], k).base_addr = NULL
               /\ k <= Len(values_head'[s])) =>
              /\ Attached(values_head'[s], k).base_addr = NULL
              /\ Attached(values_head'[s], k).values
                    = Attached(values_head[s], k).values]_vars

\* add_values has attached a backing struct to a source that still lists a
\* group of the same array whose base revoke has cleared
C23_Witness ==
    /\ Returned("add_values") /\ last.ret = 0 /\ last.arg[2] # NULL
    /\ Len(values_head[last.src]) = 2
    /\ Attached(values_head[last.src], 2) =
          [base_addr |-> last.arg[2], values |-> last.arg[1],
           files_created |-> FALSE]
    /\ Attached(values_head[last.src], 1).base_addr = NULL
    /\ Attached(values_head[last.src], 1).values = last.arg[1]

(***************************************************************************)
(* The order of statsfs_source_destroy                                     *)
(***************************************************************************)
\* where the destruction that frame k of thread t runs has got to; a frame
\* below the top waits for the put of a subordinate
DestroyStage(t, k) ==
    IF stack[t][k].kind # "put" THEN "none"
    ELSE IF k < Len(stack[t])
    THEN (IF stack[t][k + 1].kind = "put" THEN "destroy_subs" ELSE "none")
    ELSE IF pc[t] \in {"destroy_values", "destroy_subs", "destroy_free"}
    THEN pc[t]
    ELSE "none"

\* the puts of source that thread t has on its stack
PutsOf(stk, source) ==
    {k \in 1..Len(stk) : stk[k].kind = "put" /\ stk[k].src = source}

KindDescriptors == {<<"K", i>> : i \in 1..NumValues("K")}

\* contents of the u64 field: 0, 10, 32, 2^63 and 2^64 - 1
U64Samples ==
    {<<0, 0, 0, 0, 0, 0, 0, 0>>, <<10, 0, 0, 0, 0, 0, 0, 0>>,
     <<32, 0, 0, 0, 0, 0, 0, 0>>, <<0, 0, 0, 0, 0, 0, 0, 128>>,
     <<255, 255, 255, 255, 255, 255, 255, 255>>}

\* contents of the s32 field: -5, 3, 0, and the least int8_t, int16_t and
\* int32_t as the low bytes of a 32-bit word
S32Samples ==
    {<<251, 255, 255, 255>>, <<3, 0, 0, 0>>, <<0, 0, 0, 0>>,
     <<128, 0, 0, 0>>, <<0, 128, 0, 0>>, <<0, 0, 0, 128>>}

\* the first struct holds any of the samples; the second 32 and 3, or zeroes
DataMems ==
    {[b \in Bases |-> IF b = 1 THEN Struct(u, s, 1) ELSE Struct(w[1], w[2], 0)] :
        u \in U64Samples, s \in S32Samples,
        w \in {<<<<32, 0, 0, 0, 0, 0, 0, 0>>, <<3, 0, 0, 0>>>>,
               <<<<0, 0, 0, 0, 0, 0, 0, 0>>, <<0, 0, 0, 0>>>>}}

\* sources 2 and 3 as subordinates of source 1, source 3 as a subordinate
\* of source 2, or source 2 alone under source 1
DataShapes ==
    {[s \in Sources |-> IF s = 1 THEN <<3, 2>> ELSE <<>>],
     [s \in Sources |-> IF s = 1 THEN <<2>> ELSE IF s = 2 THEN <<3>> ELSE <<>>],
     [s \in Sources |-> IF s = 1 THEN <<2>> ELSE <<>>]}

\* source 1 aggregates an array; source 2 exports struct 1 and source 3
\* struct 2 through it
DataInit ==
    /\ allocated = [s \in Sources |-> "live"]
    /\ \E arr \in {"D", "K"} :
          values_head = [s \in Sources |->
              <<[base_addr |-> IF s - 1 \in Bases THEN s - 1 ELSE NULL,
                 values |-> arr, files_created |-> FALSE]>>]
    /\ subordinates_head \in DataShapes
    /\ refcount = [s \in Sources |-> 1 + Cardinality(Positions(s))]
    /\ source_dentry = [s \in Sources |-> FALSE]
    /\ held = [t \in Threads |-> [s \in Sources |->
                                    IF t = Caller THEN 1 ELSE 0]]
    /\ revoked = {}
    /\ mem \in DataMems
    /\ last = NoCall
    /\ ThreadsIdle

DataNext ==
    \/ \E s \in Sources, d \in Descriptors \cup KindDescriptors :
            GetValue(s, d)
    \/ \E s \in Sources : Revoke(s)
    \/ Return

SpecData == DataInit /\ [][DataNext]_vars

\* the readings of val over the groups G
Readings(G, val) == {Reading(g, val) : g \in G}

\* a < b as the kind of val compares them
LessAs(val, a, b) ==
    IF Deref(val).type >= STATSFS_SIGN THEN S64Less(a, b) ELSE U64Less(a, b)

\* get_value(s, d) returned an aggregate of kind over at least one leaf
AggregateOver(kind) ==
    /\ Returned("get_value")
    /\ PlaceholderFirst(last.src, last.arg[1])
    /\ Deref(last.arg).aggr_kind = kind
    /\ LiveLeaves(Subtree(last.src), last.arg[1]) # {}

\* C25: an aggregate query of kind Min (Max) over a subtree with a live
\* matching leaf returns a reading of one of these leaves that no other
\* reading is less (greater) than, in the order of int64_t when the
\* descriptor is signed and of uint64_t when it is not; the accumulator
\* starts at min = S64_MAX, max = S64_MIN for a signed descriptor and at
\* min = U64_MAX, max = 0 for an unsigned one.
C25_MinMax ==
    /\ AggregateOver(STATSFS_MIN) =>
          LET R == Readings(LiveLeaves(Subtree(last.src), last.arg[1]), last.arg)
          IN  /\ last.ret = 0
              /\ last.val \in R
              /\ \A r \in R : ~LessAs(last.arg, r, last.val)
    /\ AggregateOver(STATSFS_MAX) =>
          LET R == Readings(LiveLeaves(Subtree(last.src), last.arg[1]), last.arg)
          IN  /\ last.ret = 0
              /\ last.val \in R
              /\ \A r \in R : ~LessAs(last.arg, last.val, r)
    /\ \A d \in Descriptors \cup KindDescriptors :
          LET agg == init_aggregate_value(d)
          IN  IF Deref(d).type >= STATSFS_SIGN
              THEN agg.min = S64_MAX /\ agg.max = S64_MIN
              ELSE agg.min = U64_MAX /\ agg.max = U64Zero

\* the greatest of the signed leaves -5 and 3 is 3, the least of them as
\* unsigned numbers
C25_Witness ==
    /\ Returned("get_value") /\ last.src = 1 /\ last.ret = 0
    /\ Cardinality(LiveLeaves(Subtree(1), "D")) = 2
    /\ Deref(last.arg).name = "smax"
    /\ last.val = U64Of(3)
    /\ Readings(LiveLeaves(Subtree(1), "D"), last.arg)
          = {U64Of(3), U64Neg(U64Of(5))}

\* the greatest of the unsigned leaves 2^63 and 32 is 2^63, the least of
\* them as signed numbers
C25_WitnessUnsigned ==
    /\ Returned("get_value") /\ last.src = 1 /\ last.ret = 0
    /\ Cardinality(LiveLeaves(Subtree(1), "D")) = 2
    /\ Deref(last.arg).name = "max"
    /\ last.val = S64_MIN
    /\ Readings(LiveLeaves(Subtree(1), "D"), last.arg) = {U64Of(32), S64_MIN}

(***************************************************************************)
(* Avg                                                                     *)
(***************************************************************************)
\* a added n times, modulo 2^64
RECURSIVE Times(_, _)
Times(a, n) == IF n = 0 THEN U64Zero ELSE U64Add(a, Times(a, n - 1))

\* q is the integer part of a / n, a and q taken as unsigned numbers: q * n
\* does not wrap, is at most a, and is less than n below a
IsQuotient(q, a, n) ==
    /\ \A k \in 1..n : ~U64Less(Times(q, k), Times(q, k - 1))
    /\ ~U64Less(a, Times(q, n))
    /\ U64Less(U64Add(a, U64Neg(Times(q, n))), U64Of(n))

\* the magnitude of the int64_t a, as an unsigned number
Magnitude(a) == IF IsNegative(a) THEN U64Neg(a) ELSE a

\* q is a / n in int64_t, rounded toward zero
IsSignedQuotient(q, a, n) ==
    /\ IsQuotient(Magnitude(q), Magnitude(a), n)
    /\ q # U64Zero => IsNegative(q) = IsNegative(a)

\* get_value(s, d) returned the average of the subtree of s
AvgQuery ==
    /\ Returned("get_value")
    /\ PlaceholderFirst(last.src, last.arg[1])
    /\ Deref(last.arg).aggr_kind = STATSFS_AVG

\* C26: an aggregate query of kind Avg returns 0 when the subtree has no
\* live matching leaf, and else the sum modulo 2^64 of the readings of the
\* live matching leaves divided by their number: as unsigned numbers,
\* dropping the remainder, for an unsigned descriptor, and as int64_t,
\* rounding toward zero, for a signed one.  Leaves 10 and 32 give 21;
\* signed leaves -5 and 3 give -1.
C26_Avg ==
    AvgQuery =>
        LET G == LiveLeaves(Subtree(last.src), last.arg[1])
            sum == SumOfReadings(G, last.arg)
            n == Cardinality(G)
        IN  /\ last.ret = 0
            /\ G = {} => last.val = U64Zero
            /\ (G # {} /\ Deref(last.arg).type < STATSFS_SIGN) =>
                  IsQuotient(last.val, sum, n)
            /\ (G # {} /\ Deref(last.arg).type >= STATSFS_SIGN) =>
                  IsSignedQuotient(last.val, sum, n)
            /\ (n = 2 /\ Readings(G, last.arg) = {U64Of(10), U64Of(32)}) =>
                  last.val = U64Of(21)
            /\ (n = 2 /\ Deref(last.arg).type >= STATSFS_SIGN
                      /\ Readings(G, last.arg) = {U64Neg(U64Of(5)), U64Of(3)}) =>
                  last.val = U64Neg(U64Of(1))

\* the average of the signed leaves -5 and 3 has been returned: -1
C26_Witness ==
    /\ AvgQuery /\ last.arg = <<"D", 11>>
    /\ Deref(last.arg).type = STATSFS_S32
    /\ last.val = U64_MAX
    /\ Cardinality(LiveLeaves(Subtree(last.src), "D")) = 2
    /\ Readings(LiveLeaves(Subtree(last.src), "D"), last.arg)
          = {U64Neg(U64Of(5)), U64Of(3)}

\* the average of the signed leaves -5 and 0 is -2, not -3; that of the
\* unsigned leaves 2^64 - 1 and 32 is 15, their sum having wrapped to 31
C26_WitnessRounding ==
    /\ AvgQuery
    /\ Cardinality(LiveLeaves(Subtree(last.src), "D")) = 2
    /\ \/ /\ Deref(last.arg).type = STATSFS_S32
          /\ last.val = U64Neg(U64Of(2))
          /\ Readings(LiveLeaves(Subtree(last.src), "D"), last.arg)
                = {U64Neg(U64Of(5)), U64Zero}
       \/ /\ Deref(last.arg).type = STATSFS_U64
          /\ last.val = U64Of(15)
          /\ Readings(LiveLeaves(Subtree(last.src), "D"), last.arg)
                = {U64_MAX, U64Of(32)}

(***************************************************************************)
(* The width and the sign of a leaf                                        *)
(***************************************************************************)
\* sizeof the C type a descriptor of this kind is read through
WidthOf(type) ==
    CASE type % STATSFS_SIGN = STATSFS_U8 -> 1
      [] type % STATSFS_SIGN = STATSFS_U16 -> 2
      [] type % STATSFS_SIGN = STATSFS_U32 -> 4
      [] type % STATSFS_SIGN = STATSFS_U64 -> 8
      [] type % STATSFS_SIGN = STATSFS_BOOL -> 1

\* 2^(8 * w) modulo 2^64
TwoToBits(w) ==
    CASE w = 1 -> <<256, 0, 0, 0>>
      [] w = 2 -> <<0, 1, 0, 0>>
      [] w = 4 -> <<0, 0, 1, 0>>
      [] w = 8 -> U64Zero

\* 256 * a modulo 2^64
TimesByte(a) ==
    [l \in 1..4 |->
        (a[l] % 256) * 256 + (IF l = 1 THEN 0 ELSE a[l - 1] \div 256)]

\* the number the w bytes at offset o of struct b spell, least significant
\* byte first
RECURSIVE Spelled(_, _, _)
Spelled(b, o, w) ==
    IF w = 0 THEN U64Zero
    ELSE U64Add(TimesByte(Spelled(b, o + 1, w - 1)), U64Of(mem[b][o]))

\* the field of val in struct b as a number modulo 2^64: the number its
\* bytes spell, less 2^(8 * w) when the kind is signed and the top bit set
Extended(b, val) ==
    LET w == WidthOf(Deref(val).type)
        u == Spelled(b, Deref(val).offset, w)
        top == mem[b][Deref(val).offset + w - 1] >= 128
    IN  IF Deref(val).type >= STATSFS_SIGN /\ top
        THEN U64Add(u, U64Neg(TwoToBits(w)))
        ELSE u

\* the sum modulo 2^64 of the extended fields of val over the groups G
RECURSIVE SumOfExtended(_, _)
SumOfExtended(G, val) ==
    IF G = {} THEN U64Zero
    ELSE LET g == CHOOSE x \in G : TRUE
         IN  U64Add(Extended(values_head[g[1]][g[2]].base_addr, val),
                    SumOfExtended(G \ {g}, val))

\* C27: a leaf of kind S8, S16, S32 or S64 is read sign-extended to 64
\* bits, a leaf of kind U8, U16, U32, U64 or bool zero-extended, and a Sum
\* aggregate is the sum modulo 2^64 of the extended readings: the S32
\* leaves -5 and 3 sum to 2^64 - 2.
C27_SignExtension ==
    /\ (AttachedQuery /\ FirstGroup(last.src, last.arg).base_addr # NULL) =>
          /\ last.ret = 0
          /\ last.val = Extended(FirstGroup(last.src, last.arg).base_addr,
                                 last.arg)
          /\ Deref(last.arg).type < STATSFS_SIGN =>
                \A l \in 1..4 :
                    2 * l > WidthOf(Deref(last.arg).type) + 1 => last.val[l] = 0
    /\ (SumQuery \/ (Returned("get_value") /\ last.arg \in KindDescriptors)) =>
          (PlaceholderFirst(last.src, last.arg[1]) =>
              LET G == LiveLeaves(Subtree(last.src), last.arg[1])
              IN  /\ last.ret = 0
                  /\ last.val = SumOfExtended(G, last.arg)
                  /\ (/\ Deref(last.arg).type = STATSFS_S32
                      /\ Cardinality(G) = 2
                      /\ Readings(G, last.arg) = {U64Neg(U64Of(5)), U64Of(3)}) =>
                        last.val = <<65534, 65535, 65535, 65535>>)

\* the sum of the S32 leaves -5 and 3 has been returned: 2^64 - 2
C27_Witness ==
    /\ Returned("get_value") /\ last.arg \in KindDescriptors
    /\ Deref(last.arg).type = STATSFS_S32
    /\ PlaceholderFirst(last.src, "K")
    /\ Cardinality(LiveLeaves(Subtree(last.src), "K")) = 2
    /\ mem[1][8] = 251 /\ mem[2][8] = 3
    /\ last.val = <<65534, 65535, 65535, 65535>>

\* the byte 0x80 read at a leaf as an S8 and as an S16: -128 and 128
C27_WitnessWidths ==
    /\ Returned("get_value") /\ last.src = 2
    /\ FirstGroup(2, last.arg).base_addr = 1
    /\ mem[1][8] = 128 /\ mem[1][9] = 0
    /\ \/ /\ Deref(last.arg).type = STATSFS_S8
          /\ last.val = U64Neg(U64Of(128))
       \/ /\ Deref(last.arg).type = STATSFS_S16
          /\ last.val = U64Of(128)

(***************************************************************************)
(* CountZero                                                               *)
(***************************************************************************)
\* get_value(s, d) returned the number of zero leaves of the subtree of s
CountZeroQuery ==
    /\ Returned("get_value")
    /\ PlaceholderFirst(last.src, last.arg[1])
    /\ Deref(last.arg).aggr_kind = STATSFS_COUNT_ZERO

\* the backing structs after clear(leaf, d) at the source of group g
ClearedAt(g, val) == statsfs_source_clear_locked(heap, mem, g[1], val).mem

\* C28: an aggregate query of kind CountZero returns the number of live
\* matching leaves of the subtree whose reading is 0, for a signed and for
\* an unsigned descriptor alike: 0 over the leaves 10 and 32, and 1 once
\* one of the two has been cleared.
C28_CountZero ==
    CountZeroQuery =>
        LET G == LiveLeaves(Subtree(last.src), last.arg[1])
            Z == {g \in G : \A o \in Offsets :
                     (/\ o >= Deref(last.arg).offset
                      /\ o < Deref(last.arg).offset
                                + WidthOf(Deref(last.arg).type)) =>
                         mem[values_head[g[1]][g[2]].base_addr][o] = 0}
        IN  /\ last.ret = 0
            /\ last.val = U64Of(Cardinality(Z))
            /\ (Cardinality(G) = 2
                   /\ Readings(G, last.arg) = {U64Of(10), U64Of(32)}) =>
                  /\ last.val = U64Zero
                  /\ \A g \in G :
                        statsfs_source_get_value_locked(heap,
                            ClearedAt(g, last.arg), last.src, last.arg)
                          = [ret |-> 0, val |-> U64Of(1)]

\* the leaves hold 10 and 32 and CountZero has returned 0
C28_Witness ==
    /\ CountZeroQuery /\ last.val = U64Zero
    /\ Deref(last.arg).type = STATSFS_U64
    /\ Cardinality(LiveLeaves(Subtree(last.src), last.arg[1])) = 2
    /\ Readings(LiveLeaves(Subtree(last.src), last.arg[1]), last.arg)
          = {U64Of(10), U64Of(32)}

\* two signed leaves that both read 0, and one unsigned leaf of two that does
C28_WitnessCounts ==
    /\ CountZeroQuery
    /\ Cardinality(LiveLeaves(Subtree(last.src), last.arg[1])) = 2
    /\ \/ Deref(last.arg).type = STATSFS_S32 /\ last.val = U64Of(2)
       \/ Deref(last.arg).type = STATSFS_U64 /\ last.val = U64Of(1)

(***************************************************************************)
(* The key of a walk: the address of the descriptor array                  *)
(***************************************************************************)
\* the registry with only the value groups of array arr
OnlyArray(arr) ==
    [heap EXCEPT !.values_head =
        [s \in Sources |-> SelectSeq(values_head[s], LAMBDA g : g.values = arr)]]

\* the backing structs that a live group of array arr in S points to
BasesOf(S, arr) ==
    {values_head[g[1]][g[2]].base_addr : g \in LiveLeaves(S, arr)}

\* an array other than that of val has an entry with val's name, offset and
\* kind, and a live group of it is in the subtree of source
Lookalike(source, val) ==
    \E g \in Subtree(source) \X (1..MaxGroups) :
        /\ g[2] <= Len(values_head[g[1]])
        /\ values_head[g[1]][g[2]].values # val[1]
        /\ values_head[g[1]][g[2]].base_addr # NULL
        /\ \E i \in 1..NumValues(values_head[g[1]][g[2]].values) :
              LET e == Table(values_head[g[1]][g[2]].values)[i]
              IN  /\ e.name = Deref(val).name
                  /\ e.offset = Deref(val).offset
                  /\ e.type = Deref(val).type

\* clear(s, d) through a placeholder has just returned
AggregateClear ==
    /\ Returned("clear") /\ last.ret = 0
    /\ PlaceholderFirst(last.src, last.arg[1])

\* C29: in the walk of an aggregate get_value and of an aggregate clear a
\* value group takes part only when its descriptor array is the array of
\* the reference group found on the starting source: the result is the
\* aggregate over the live groups of that array and is what it would be
\* with every group of another array taken off the tree, and a clear
\* leaves alone every struct that only groups of another array point to,
\* also when the other array has an entry with the same name, offset and
\* kind.
C29_GroupedByArray ==
    /\ AggregateQuery =>
          /\ last.ret = 0
          /\ last.val = RefAggregate(LiveLeaves(Subtree(last.src), last.arg[1]),
                                     last.arg)
          /\ statsfs_source_get_value_locked(OnlyArray(last.arg[1]), mem,
                                             last.src, last.arg)
                = [ret |-> last.ret, val |-> last.val]
    /\ AggregateClear =>
          /\ mem = statsfs_source_clear_locked(OnlyArray(last.arg[1]), InitMem,
                                               last.src, last.arg).mem
          /\ \A b \in Bases \ BasesOf(Subtree(last.src), last.arg[1]) :
                mem[b] = InitMem[b]

\* the sum of D.n over a subtree that holds a D leaf over struct 2 (32) and
\* a group of array E, whose first entry is "n" too, over struct 1 (10)
C29_Witness ==
    /\ AggregateQuery /\ last.arg = <<"D", 1>>
    /\ Lookalike(last.src, last.arg)
    /\ BasesOf(Subtree(last.src), "D") = {2}
    /\ BasesOf(Subtree(last.src), "E") = {1}
    /\ last.val = U64Of(32)

\* clear of D.n over the same subtree: struct 1 keeps its 10
C29_WitnessClear ==
    /\ AggregateClear /\ last.arg = <<"D", 1>>
    /\ Lookalike(last.src, last.arg)
    /\ BasesOf(Subtree(last.src), "D") = {2}
    /\ mem[1] = InitMem[1] /\ mem[2] # InitMem[2]

(***************************************************************************)
(* What an aggregate clear writes                                          *)
(***************************************************************************)
\* the bytes of the field of val in a backing struct
FieldOf(val) ==
    {o \in Offsets : /\ o >= Deref(val).offset
                     /\ o < Deref(val).offset + WidthOf(Deref(val).type)}

\* the step is the call clear(last'.src, last'.arg)
ClearCalled == last.op # "clear" /\ last'.op = "clear"

\* C30: clear(s, d), when the group of d's array that the lookup finds on s
\* has a null base, succeeds and writes 0 to the field of d in the struct
\* of every group of the subtree of s that has d's array and a non-null
\* base; every other byte of these structs, every struct that no such
\* group points to, every value group (those of other arrays and those
\* with a null base included), the subordinates lists, the reference
\* counts and the directories are as before the call.
C30_ClearAggregate ==
    [][(ClearCalled /\ last'.arg \in Descriptors
                    /\ PlaceholderFirst(last'.src, last'.arg[1])) =>
          /\ last'.ret = 0
          /\ \A b \in Bases, o \in Offsets :
                mem'[b][o] =
                    IF /\ b \in BasesOf(Subtree(last'.src), last'.arg[1])
                       /\ o \in FieldOf(last'.arg)
                    THEN 0 ELSE mem[b][o]
          /\ UNCHANGED <<allocated, refcount, values_head,
                         subordinates_head, source_dentry, held>>]_vars

\* clear of the S32 "smax" through the root has zeroed the field in both
\* leaves and left their u64 fields at 10 and 32
C30_Witness ==
    /\ AggregateClear /\ last.arg = <<"D", 9>>
    /\ BasesOf(Subtree(last.src), "D") = {1, 2}
    /\ \A b \in Bases : \A o \in Offsets :
          mem[b][o] = IF o \in 8..11 THEN 0 ELSE InitMem[b][o]

\* clear through a root whose subtree holds a leaf of the array, a group of
\* the array without a base and a group of another array over struct 1
C30_WitnessOthers ==
    /\ AggregateClear /\ last.arg[1] = "D"
    /\ BasesOf(Subtree(last.src), "D") = {2}
    /\ BasesOf(Subtree(last.src), "E") = {1}
    /\ mem[1] = InitMem[1]
    /\ mem[2] # InitMem[2]

(***************************************************************************)
(* What a simple clear writes                                              *)
(***************************************************************************)
\* the step is clear(last'.src, last'.arg) for a descriptor whose array has
\* a group on the source, the first of them with a backing struct
SimpleClearCalled ==
    /\ ClearCalled
    /\ last'.arg \in Descriptors
    /\ AttachedTo(last'.src, last'.arg)
    /\ FirstGroup(last'.src, last'.arg).base_addr # NULL

ClearStep(t) ==
    /\ call[t].op = "clear"
    /\ pc[t] \in {"rd_simple", "walk_read"}
    /\ pc'[t] # pc[t]

\* C32: a step that changes a byte of a backing struct is a step of a call
\* of clear, and the byte it changes becomes 0; the steps of get_value,
\* get_value_by_name, add_values, add_subordinate, remove_subordinate,
\* revoke, get, put and of the destruction a put starts leave every byte of
\* every struct as it was.
C32_WritesOnlyOnClear ==
    [][mem' # mem =>
          /\ \E t \in Threads : ClearStep(t)
          /\ \A b \in Bases, o \in Offsets : mem'[b][o] \in {mem[b][o], 0}]_vars

\* a get_value has returned, a source has been revoked and another one
\* destroyed by its last put, and the structs are as the producer left them
C32_Witness ==
    /\ \E t \in Threads : result[t].op = "get_value" /\ result[t].ret = 0
    /\ revoked # {}
    /\ \E s \in Sources : allocated[s] = "freed"
    /\ \E s \in Sources : Len(subordinates_head[s]) > 0
    /\ mem = InitMem

\* a clear has returned and the field it names is 0 in struct 1
C32_WitnessClear ==
    /\ \E t \in Threads : result[t].op = "clear" /\ result[t].ret = 0
    /\ mem # InitMem

(***************************************************************************)
(* The references of open and release                                      *)
(***************************************************************************)
\* the one put of source that a call of thread t is left with, returning
\* to label
OnePut(source, label) == <<Frame("put", source, 0, 0, label)>>

\* C33: an open that succeeds raises the count of the file's source by
\* exactly 1 (kref_get_unless_zero) and keeps that reference as the open
\* file; the release of that file gives up the file and makes exactly one
\* put, which lowers the count by exactly 1. An open that finds the count at
\* zero returns -ENOENT with every count as it was; an open whose attribute
\* setup fails makes exactly one put of the reference it took and returns
\* -ENOMEM when that put is over. At every moment the count of a live source
\* is the number of its holders: open files, opens and puts under way, the
\* producer's references and the list of its parent.
C33_OpenReleaseBalance ==
    /\ []RefAccounted
    /\ [][\A t \in Threads :
            /\ \A s \in Sources :
                  /\ (OpenGet(t, s) /\ refcount[s] # 0) =>
                        /\ refcount' = [refcount EXCEPT ![s] = @ + 1]
                        /\ held' = held
                  /\ (OpenGet(t, s) /\ refcount[s] = 0) =>
                        /\ refcount' = refcount /\ held' = held
                        /\ result'[t].ret = -ENOENT
                  /\ StartRelease(t, s) =>
                        /\ refcount' = refcount
                        /\ held' = [held EXCEPT ![t][s] = @ - 1]
                        /\ stack'[t] = OnePut(s, "return")
            /\ (OpenAttr(t) /\ pc'[t] = "idle") =>
                  /\ refcount' = refcount
                  /\ held' = [held EXCEPT ![t][call[t].src] = @ + 1]
                  /\ result'[t].ret = 0
            /\ (OpenAttr(t) /\ pc'[t] # "idle") =>
                  /\ refcount' = refcount /\ held' = held
                  /\ stack'[t] = OnePut(call[t].src, "open_nomem")
            /\ OpenNomem(t) =>
                  /\ stack[t] = <<>>
                  /\ refcount' = refcount /\ held' = held
                  /\ result'[t].ret = -ENOMEM
            /\ (ThreadReturn(t) /\ call[t].op = "release") =>
                  /\ stack[t] = <<>>
                  /\ refcount' = refcount /\ held' = held
            /\ PutDecrements(t) =>
                  refcount' = [refcount EXCEPT ![Top(t).src] = @ - 1]]_vars

\* the consumer has a file of source 3 open, which is the second reference
\* of source 3, and its open of a file of source 2 has failed with -ENOMEM:
\* source 2 is left with the reference of its parent's list
C33_Witness ==
    /\ pc[2] = "idle"
    /\ held[2][3] = 1 /\ refcount[3] = 2
    /\ result[2] = Result("open", 2, NULL_VALUE, -ENOMEM, U64Zero)
    /\ held[2][2] = 0 /\ refcount[2] = 1

\* the consumer releases its file of source 2 after the producer unlinked
\* the source: the put of the release is the last one and the consumer
\* destroys the source
C33_WitnessRelease ==
    /\ call[2].op = "release" /\ call[2].src = 2
    /\ Destroying(2, 2)
    /\ refcount[2] = 0
    /\ subordinates_head[1] = <<>>

(***************************************************************************)
(* The files specification: the directory and the files of a source, made  *)
(* and removed step by step by threads that register, link and unlink      *)
(***************************************************************************)
\* statsfs_source_register: down_write(&source->rwsem) and the call of
\* statsfs_create_files_recursive_locked(source, NULL)
RegLock(t, source) ==
    /\ MayCall(t, source)
    /\ CanDownWrite(source)
    /\ rwsem' = down_write(t, source)
    /\ stack' = [stack EXCEPT ![t] = <<Frame("create", source, 0, 1, "cf_next")>>]
    /\ Enter(t, Call("register", source, NoSource, NULL_VALUE, NULL, NULL_NAME),
             "cf_visit")
    /\ UNCHANGED <<heapVars, held, revoked, mem, last, acc, result>>

\* statsfs_source_add_subordinate after its down_write: statsfs_source_get
\* and list_add; then, when the parent has a dentry, the call of
\* statsfs_create_files_recursive_locked(sub, ...), else up_write and the
\* return
AsLink(t) ==
    /\ pc[t] = "as_body"
    /\ LET c == call[t]
       IN  /\ refcount' = [refcount EXCEPT ![c.sub] = @ + 1]
           /\ subordinates_head' =
                  [subordinates_head EXCEPT ![c.src] = <<c.sub>> \o @]
           /\ IF source_dentry[c.src]
              THEN /\ stack' = [stack EXCEPT ![t] =
                          <<Frame("create", c.sub, 0, 1, "cf_next")>>]
                   /\ pc' = [pc EXCEPT ![t] = "cf_visit"]
                   /\ UNCHANGED <<rwsem, call, result>>
              ELSE /\ rwsem' = up_write(t, c.src)
                   /\ Leave(t, 0, U64Zero)
                   /\ UNCHANGED stack
    /\ UNCHANGED <<allocated, values_head, source_dentry, held, revoked, mem,
                   last, acc, ops>>

\* statsfs_create_files_recursive_locked on the source of the top frame: its
\* directory, when it has none, and statsfs_create_files_locked
CfVisit(t) ==
    /\ pc[t] = "cf_visit"
    /\ SetHeap(statsfs_create_files_locked(
                   [heap EXCEPT !.source_dentry[Top(t).src] = TRUE],
                   Top(t).src))
    /\ pc' = [pc EXCEPT ![t] = "cf_next"]
    /\ UNCHANGED <<held, revoked, mem, last, rwsem, call, stack, acc, result, ops>>

\* ... and its loop over the subordinates: one with a dentry is passed over,
\* one without is entered between down_write and up_write of its rwsem; at
\* the end of the list the function returns, to the loop of its caller or to
\* the up_write of statsfs_source_register / statsfs_source_add_subordinate
CfNext(t) ==
    /\ pc[t] = "cf_next"
    /\ LET f == Top(t)
           children == subordinates_head[f.src]
       IN  IF f.c <= Len(children)
           THEN IF source_dentry[children[f.c]]
                THEN /\ stack' = [stack EXCEPT ![t] =
                            SetTop(t, [f EXCEPT !.c = @ + 1])]
                     /\ UNCHANGED <<rwsem, pc, call, result>>
                ELSE /\ CanDownWrite(children[f.c])
                     /\ rwsem' = down_write(t, children[f.c])
                     /\ stack' = [stack EXCEPT ![t] =
                            Append(SetTop(t, [f EXCEPT !.c = @ + 1]),
                                   Frame("create", children[f.c], 0, 1,
                                         "cf_next"))]
                     /\ pc' = [pc EXCEPT ![t] = "cf_visit"]
                     /\ UNCHANGED <<call, result>>
           ELSE IF Len(stack[t]) > 1
                THEN /\ rwsem' = up_write(t, f.src)
                     /\ stack' = [stack EXCEPT ![t] = Pop(t)]
                     /\ UNCHANGED <<pc, call, result>>
                ELSE /\ rwsem' = up_write(t, call[t].src)
                     /\ stack' = [stack EXCEPT ![t] = <<>>]
                     /\ Leave(t, 0, U64Zero)
    /\ UNCHANGED <<heapVars, held, revoked, mem, last, acc, ops>>

\* source 3, over struct 2, is the subordinate of source 2, over struct 1;
\* source 1 has no value and no subordinate yet and is registered or not;
\* none of the others is. Both threads hold sources 1 and 2.
FilesInit ==
    \E registered \in BOOLEAN :
        /\ allocated = [s \in Sources |-> "live"]
        /\ values_head = [s \in Sources |->
                IF s \in {2, 3}
                THEN <<[base_addr |-> s - 1, values |-> "D",
                        files_created |-> FALSE]>>
                ELSE <<>>]
        /\ subordinates_head = [s \in Sources |-> IF s = 2 THEN <<3>> ELSE <<>>]
        /\ source_dentry = [s \in Sources |-> s = 1 /\ registered]
        /\ held = [t \in Threads |-> [s \in Sources |->
                      IF s \in {1, 2} \/ (s > 3 /\ t = Caller) THEN 1 ELSE 0]]
        /\ refcount = [s \in Sources |-> IF s \in {1, 2} THEN NumThreads ELSE 1]
        /\ revoked = {}
        /\ mem = InitMem
        /\ last = NoCall
        /\ ThreadsIdle

\* the threads register, attach, link, unlink and put
FilesNext ==
    \E t \in Threads :
        \/ \E s \in Sources : RegLock(t, s)
        \/ \E s \in Sources : StartAddValues(t, s, "D", NumBases)
        \/ \E s, c \in Sources : StartAddSubordinate(t, s, c)
        \/ \E s, c \in Sources : StartRemoveSubordinate(t, s, c)
        \/ \E s \in Sources : StartPut(t, s)
        \/ AvLock(t) \/ AvBody(t)
        \/ AsLock(t) \/ AsLink(t) \/ CfVisit(t) \/ CfNext(t)
        \/ RsLock(t) \/ RsSearch(t) \/ RsUnlock(t)
        \/ RmfilesLock(t) \/ RmfilesBody(t)
        \/ PutDecNotOne(t) \/ PutDownWrite(t) \/ PutDecAndTest(t)
        \/ DestroyValues(t) \/ DestroySubs(t) \/ DestroyFree(t)
        \/ ThreadReturn(t)

SpecFiles == FilesInit /\ [][FilesNext]_vars

\* what the files helpers keep of source: its dentry and the files_created
\* flags of its value groups
Presentation(source) ==
    <<source_dentry[source],
      [i \in 1..Len(values_head[source]) |->
          values_head[source][i].files_created]>>

\* thread t takes the step
Stepping(t) == pc'[t] # pc[t] \/ stack'[t] # stack[t]

\* C34: a step that changes the dentry of a source or the files_created
\* flag of one of its value groups is taken by a thread that holds the
\* write lock of that source, the child that add_subordinate hands to the
\* file creation under a registered parent included.
C34_PresentationUnderOwnLock ==
    [][\A s \in Sources :
          Presentation(s)' # Presentation(s) =>
              \E t \in Threads : Stepping(t) /\ rwsem[s].writer = t]_vars

\* a thread is creating the directory and the files of source s, which it
\* was handed by add_subordinate, while another thread holds the write lock
\* of s inside add_values
FilesRace ==
    \E t, u \in Threads : \E s \in Sources :
        /\ pc[t] = "cf_visit" /\ Top(t).src = s
        /\ call[t].op = "add_subordinate" /\ call[t].sub = s
        /\ rwsem[s].writer = u /\ u # t
        /\ pc[u] = "av_body" /\ call[u].src = s

====
